---- MODULE Spec2Model ----
(***************************************************************************)
(* Document ingestion of the Hi Licita monorepo: the API's                 *)
(* DocumentsService / ChecklistsService / RedisService, the Postgres       *)
(* tables Document and Checklist, the Redis list document:ingest, and the  *)
(* Python worker's main loop and process_job as the repository documents   *)
(* them in apps/worker/FLUXO_WORKER.md.                                    *)
(***************************************************************************)
EXTENDS Integers, Sequences, FiniteSets, TLC

\* ------------------------------------------------------------------ bounds
MaxPushes == 2      \* LPUSHes on document:ingest in one behaviour
MaxKills == 1       \* times a worker process is killed in one behaviour
MaxDeletes == 1     \* DELETE /checklists/:id calls in one behaviour
MaxChecklistIds == 3 \* Checklist rows the API creates up to this id
MaxPolls == 2       \* status polls of one handleExtract run (120 in page.tsx)
\* Characters kept of a mecanismoPagamento (stands for 600).
MaxMecanismoChars == 12
MaxChunks == 4          \* chunks handed to retrieve_for_block
TOP_K_RETRIEVAL == 2    \* chunks retrieve_for_block selects (12 in the worker)
TOP_N_FOR_MMR == 3      \* chunks kept for the MMR pass (40 in the worker)
CHUNK_MIN_CHARS == 8    \* least length of a chunk (800 in the worker)
CHUNK_MAX_CHARS == 12   \* greatest length of a chunk (1200 in the worker)
CHUNK_OVERLAP_CHARS == 3 \* characters two adjacent chunks share (150 in the worker)
MaxTokens == 7          \* words of a parsed document

\* ------------------------------------------------------------- value sets
NULL == "null"
Users == {"u1"}
DocIds == {"d1", "d2"}          \* ids randomUUID() hands out, in this order
UnknownDoc == "d9"              \* an id no Document row ever carries
Runners == {"w1", "w2"}         \* worker processes on the same queue
NoJob == [documentId |-> NULL, userId |-> NULL, fileUrl |-> NULL, usePdfFile |-> FALSE]
NoRow == [status |-> "absent", userId |-> NULL]
NoReply == [op |-> NULL, id |-> NULL, userId |-> NULL, answer |-> NULL, calls |-> {}]

\* The eight blocks, in the order process_job walks them.
CHECKLIST_BLOCKS ==
    << "edital", "modalidade_participacao", "prazos", "documentos",
       "visita_proposta", "sessao_disputa", "pagamento_contrato", "analise" >>

VARIABLES
    Document,       \* table Document: id -> row (status, userId) or NoRow
    Checklist,      \* table Checklist: set of rows (id, userId, documentId)
    nextChecklistId,\* ids handed to Checklist rows so far
    queue,          \* Redis list document:ingest, head (LPUSH side) first
    pushes,         \* LPUSHes so far
    kills,          \* worker kills so far
    deletes,        \* checklist deletions so far
    pc,             \* per worker: position in main / process_job
    job,            \* per worker: the payload process_job was called with
    tmp,            \* per worker: the job's temporary file exists
    trace,          \* per worker: what the current process_job call did so far
    failedAt,       \* per worker: the stage that raised in this call, or NULL
    foundDone,      \* per worker: the Document was done when process_job was called
    orphanTmp,      \* temporary files left behind by killed workers
    completions,    \* per document: runs that inserted the checklist and wrote done
    deleted,        \* documentIds whose latest Checklist row was deleted through the API
    web,            \* the web client: where handleExtract is, its documentId, i, status
    origin,         \* Checklist id -> the document ChecklistsService.generate read
    reply,          \* the API's answer to the last request followed, and the calls it made
    gpc,            \* checklist generation: the step it is at
    merged,         \* checklist generation: the accumulator `merged`
    flats,          \* checklist generation: the flattened block results so far
    calls,          \* checklist generation: the calls of step 5 so far, in order
    retrieval,      \* retrieve_for_block: chunks, lambda, sorted top N, pool, selected
    chunking        \* the chunker: the text, where it is in it, the chunks so far

vars == << Document, Checklist, nextChecklistId, queue, pushes, kills, deletes,
           pc, job, tmp, trace, failedAt, foundDone, orphanTmp,
           completions, deleted, web, origin, reply, gpc, merged, flats, calls,
           retrieval, chunking >>

dbVars == << Document, Checklist, nextChecklistId, completions, deleted >>
envVars == << pushes, kills, deletes >>
webVars == << web, origin >>
genVars == << gpc, merged, flats, calls, retrieval, chunking >>
sysVars == << dbVars, envVars, queue, pc, job, tmp, trace, failedAt, foundDone,
             orphanTmp, webVars, reply >>

\* ------------------------------------------------------------ the database
status(d) == IF d \in DocIds THEN Document[d].status ELSE "absent"

RowExists(d) == d \in DocIds /\ Document[d] # NoRow

\* UPDATE "Document" SET status = s WHERE id = d: no row, no change, no error.
UpdateStatus(d, s) ==
    IF RowExists(d)
    THEN Document' = [Document EXCEPT ![d].status = s]
    ELSE UNCHANGED Document

\* The index without UNIQUE.
Checklist_documentId_key_loose(rows, d) == TRUE

\* CREATE UNIQUE INDEX "Checklist_documentId_key" ON "Checklist"("documentId"):
\* TRUE when a row (documentId d) may be inserted; NULLs never collide.
Checklist_documentId_key(rows, d) ==
    d = NULL \/ ~ \E c \in rows : c.documentId = d

\* FOREIGN KEY ("documentId") REFERENCES "Document"("id")
Checklist_documentId_fkey(d) == d = NULL \/ RowExists(d)

\* ------------------------------------------------------------------ Redis
\* RPUSH in the place of LPUSH: the payload goes to the end BRPOP takes from.
push_rpush(q, payload) == q \o << payload >>

\* RedisService.push: LPUSH queue body
push(q, payload) == << payload >> \o q

\* BRPOP: the element at the tail
brpopHead(q) == q[Len(q)]
brpopRest(q) == SubSeq(q, 1, Len(q) - 1)

\* --------------------------------------------------------------------- API
\* What a request was, what it was answered and the provider and database
\* calls made for it.
Answer(op, id, userId, answer, made) ==
    [op |-> op, id |-> id, userId |-> userId, answer |-> answer, calls |-> made]

\* DocumentsService.createAndEnqueue: storage upload, presigned URL, Document
\* row (status pending), then the job payload is pushed; `outcome` names the
\* await that throws, if one does.
UuidOrder == << "d1", "d2" >>
NextDocId ==
    UuidOrder[CHOOSE i \in 1..Len(UuidOrder) :
                 /\ Document[UuidOrder[i]] = NoRow
                 /\ \A j \in 1..(i - 1) : Document[UuidOrder[j]] # NoRow]

\* createAndEnqueue with the push ahead of document.create.
createAndEnqueue_pushfirst(userId, outcome) ==
    /\ pushes < MaxPushes
    /\ \E d \in DocIds : Document[d] = NoRow
    /\ LET documentId == NextDocId
           jobPayload == [documentId |-> documentId, userId |-> userId,
                          fileUrl |-> "url", usePdfFile |-> FALSE]
       IN  CASE outcome \in {"not_configured", "upload_throws", "presign_throws",
                            "push_throws"} ->
                  UNCHANGED << Document, queue, pushes >>
             [] outcome = "create_throws" ->
                  /\ queue' = push(queue, jobPayload)
                  /\ pushes' = pushes + 1
                  /\ UNCHANGED Document
             [] outcome = "ok" ->
                  /\ Document' = [Document EXCEPT ![documentId] =
                                     [status |-> "pending", userId |-> userId]]
                  /\ queue' = push(queue, jobPayload)
                  /\ pushes' = pushes + 1
    /\ UNCHANGED << Checklist, nextChecklistId, kills, deletes, pc, job, tmp,
                    trace, failedAt, foundDone, orphanTmp, completions, deleted >>
    /\ UNCHANGED << origin, genVars, reply >>

\* createAndEnqueue pushing filePath where the worker reads fileUrl.
createAndEnqueue_filePath(userId, outcome) ==
    /\ pushes < MaxPushes
    /\ \E d \in DocIds : Document[d] = NoRow
    /\ LET documentId == NextDocId
           jobPayload == [documentId |-> documentId, userId |-> userId,
                          fileUrl |-> NULL, usePdfFile |-> FALSE]
       IN  CASE outcome \in {"not_configured", "upload_throws", "presign_throws",
                            "create_throws"} ->
                  UNCHANGED << Document, queue, pushes >>
             [] outcome = "push_throws" ->
                  /\ Document' = [Document EXCEPT ![documentId] =
                                     [status |-> "pending", userId |-> userId]]
                  /\ UNCHANGED << queue, pushes >>
             [] outcome = "ok" ->
                  /\ Document' = [Document EXCEPT ![documentId] =
                                     [status |-> "pending", userId |-> userId]]
                  /\ queue' = push(queue, jobPayload)
                  /\ pushes' = pushes + 1
    /\ UNCHANGED << Checklist, nextChecklistId, kills, deletes, pc, job, tmp,
                    trace, failedAt, foundDone, orphanTmp, completions, deleted >>
    /\ UNCHANGED << origin, genVars, reply >>

createAndEnqueue(userId, outcome) ==
    /\ pushes < MaxPushes
    /\ \E d \in DocIds : Document[d] = NoRow
    /\ LET documentId == NextDocId
           jobPayload == [documentId |-> documentId, userId |-> userId,
                          fileUrl |-> "url", usePdfFile |-> FALSE]
       IN  CASE outcome \in {"not_configured", "upload_throws", "presign_throws",
                            "create_throws"} ->
                  UNCHANGED << Document, queue, pushes >>
             [] outcome = "push_throws" ->
                  /\ Document' = [Document EXCEPT ![documentId] =
                                     [status |-> "pending", userId |-> userId]]
                  /\ UNCHANGED << queue, pushes >>
             [] outcome = "ok" ->
                  /\ Document' = [Document EXCEPT ![documentId] =
                                     [status |-> "pending", userId |-> userId]]
                  /\ queue' = push(queue, jobPayload)
                  /\ pushes' = pushes + 1
    /\ UNCHANGED << Checklist, nextChecklistId, kills, deletes, pc, job, tmp,
                    trace, failedAt, foundDone, orphanTmp, completions, deleted >>
    /\ UNCHANGED << origin, genVars, reply >>

\* DocumentsController.upload (POST /documents/upload) for a caller other than
\* the page: the session's user, createAndEnqueue, its result as the response.
upload(userId, outcome) ==
    /\ createAndEnqueue(userId, outcome)
    /\ UNCHANGED web

\* DocumentsService.getChecklistForDocument: the checklist data, or NotFound.
getChecklistForDocument(documentId, userId) ==
    IF ~ (RowExists(documentId) /\ Document[documentId].userId = userId)
    THEN "NotFound"
    ELSE IF ~ \E c \in Checklist : c.documentId = documentId /\ c.userId = userId
         THEN "NotFound"
         ELSE "checklist"

\* ChecklistsService.delete with the userId left out of the findFirst.
delete_anyowner(id, userId) ==
    /\ deletes < MaxDeletes
    /\ IF \E c \in Checklist : c.id = id
       THEN \E c \in Checklist :
               /\ c.id = id
               /\ Checklist' = Checklist \ {c}
               /\ deleted' = IF c.documentId = NULL THEN deleted
                             ELSE deleted \cup {c.documentId}
               /\ reply' = Answer("delete", id, userId, "ok", {})
       ELSE /\ reply' = Answer("delete", id, userId, "NotFound", {})
            /\ UNCHANGED << Checklist, deleted >>
    /\ deletes' = deletes + 1
    /\ UNCHANGED << Document, nextChecklistId, queue, pushes, kills, pc, job, tmp, trace, failedAt, foundDone, orphanTmp, completions >>
    /\ UNCHANGED << webVars, genVars >>

\* ChecklistsService.delete: findFirst where id and userId, NotFound when
\* there is none, otherwise the row is removed and { ok: true } answered.
delete(id, userId) ==
    /\ deletes < MaxDeletes
    /\ IF \E c \in Checklist : c.id = id /\ c.userId = userId
       THEN \E c \in Checklist :
               /\ c.id = id /\ c.userId = userId
               /\ Checklist' = Checklist \ {c}
               /\ deleted' = IF c.documentId = NULL THEN deleted
                             ELSE deleted \cup {c.documentId}
               /\ reply' = Answer("delete", id, userId, "ok", {})
       ELSE /\ reply' = Answer("delete", id, userId, "NotFound", {})
            /\ UNCHANGED << Checklist, deleted >>
    /\ deletes' = deletes + 1
    /\ UNCHANGED << Document, nextChecklistId, queue, pushes, kills, pc, job, tmp, trace, failedAt, foundDone, orphanTmp, completions >>
    /\ UNCHANGED << webVars, genVars >>

\* DocumentsService.getStatus: the Document's status, or NotFound.
getStatus(documentId, userId) ==
    IF RowExists(documentId) /\ Document[documentId].userId = userId
    THEN Document[documentId].status
    ELSE "NotFound"

\* ChecklistsService.generate: what the call answers.  NotFound when the
\* caller has no such Document or its status is not done; otherwise the
\* embedding, the chunk query, the chat call and JSON.parse run, any of which
\* may throw (`outcome`), and then the row is created.
GenerateOutcomes == {"ok", "embed_throws", "chat_throws", "parse_throws", "create_throws"}

generateAnswer(documentId, userId, outcome) ==
    IF getStatus(documentId, userId) = "NotFound" THEN "NotFound"
    ELSE IF getStatus(documentId, userId) # "done" THEN "NotFound"
    ELSE IF outcome # "ok" THEN "Error"
    ELSE "checklist"

\* The calls ChecklistsService.generate makes before it answers: llm.embed,
\* the chunk query, llm.chat, prisma.checklist.create, up to the one that
\* throws.
generateCalls(documentId, userId, outcome) ==
    IF generateAnswer(documentId, userId, outcome) = "NotFound" THEN {}
    ELSE CASE outcome = "embed_throws" -> {"embed"}
           [] outcome \in {"chat_throws", "parse_throws"} -> {"embed", "query", "chat"}
           [] OTHER -> {"embed", "query", "chat", "create"}

\* generate with the status check after the calls.
generate_checkafter(documentId, userId, outcome) ==
    /\ nextChecklistId < MaxChecklistIds
    /\ IF getStatus(documentId, userId) # "NotFound" /\ outcome = "ok"
       THEN /\ Checklist' = Checklist \cup
                   {[id |-> nextChecklistId + 1, userId |-> userId,
                     documentId |-> NULL]}
            /\ nextChecklistId' = nextChecklistId + 1
            /\ origin' = origin @@ ((nextChecklistId + 1) :> documentId)
       ELSE UNCHANGED << Checklist, nextChecklistId, origin >>
    /\ reply' = Answer("generate", documentId, userId,
                       generateAnswer(documentId, userId, outcome),
                       IF getStatus(documentId, userId) = "NotFound" THEN {}
                       ELSE {"embed", "query", "chat", "create"})
    /\ UNCHANGED << Document, completions, deleted, envVars, queue, pc, job, tmp,
                    trace, failedAt, foundDone, orphanTmp, genVars >>

\* ChecklistsService.generate: prisma.checklist.create with userId, file_name,
\* data, pontuacao, orgao, objeto, valor_total; documentId is not among them.
generate(documentId, userId, outcome) ==
    /\ nextChecklistId < MaxChecklistIds
    /\ IF generateAnswer(documentId, userId, outcome) = "checklist"
       THEN /\ Checklist' = Checklist \cup
                   {[id |-> nextChecklistId + 1, userId |-> userId,
                     documentId |-> NULL]}
            /\ nextChecklistId' = nextChecklistId + 1
            /\ origin' = origin @@ ((nextChecklistId + 1) :> documentId)
       ELSE UNCHANGED << Checklist, nextChecklistId, origin >>
    /\ reply' = Answer("generate", documentId, userId,
                       generateAnswer(documentId, userId, outcome),
                       generateCalls(documentId, userId, outcome))
    /\ UNCHANGED << Document, completions, deleted, envVars, queue, pc, job, tmp,
                    trace, failedAt, foundDone, orphanTmp, genVars >>

\* ChecklistsController: POST /checklists/generate from a caller other than
\* the page.
generate_request(documentId, userId, outcome) ==
    /\ generate(documentId, userId, outcome)
    /\ UNCHANGED web

\* ChecklistsService.create (POST /checklists): a row from the caller's data,
\* again without documentId.
create(userId) ==
    /\ nextChecklistId < MaxChecklistIds
    /\ Checklist' = Checklist \cup
           {[id |-> nextChecklistId + 1, userId |-> userId, documentId |-> NULL]}
    /\ nextChecklistId' = nextChecklistId + 1
    /\ UNCHANGED << Document, completions, deleted, envVars, queue, pc, job, tmp,
                    trace, failedAt, foundDone, orphanTmp, webVars, genVars, reply >>

\* Everything but the answer stays as it is.
ReadOnly ==
    UNCHANGED << dbVars, envVars, queue, pc, job, tmp, trace, failedAt, foundDone,
                 orphanTmp, webVars, genVars >>

\* GET /documents/:id/status -> DocumentsService.getStatus
getStatus_request(documentId, userId) ==
    /\ reply' = Answer("getStatus", documentId, userId, getStatus(documentId, userId), {})
    /\ ReadOnly

\* GET /documents/:id/checklist -> DocumentsService.getChecklistForDocument
getChecklist_request(documentId, userId) ==
    /\ reply' = Answer("getChecklistForDocument", documentId, userId,
                       getChecklistForDocument(documentId, userId), {})
    /\ ReadOnly

\* findOne with the userId left out of the findFirst.
findOne_anyowner(id, userId) ==
    /\ reply' = Answer("findOne", id, userId,
                       IF \E c \in Checklist : c.id = id THEN "checklist" ELSE "NotFound", {})
    /\ ReadOnly

\* ChecklistsService.findOne (GET /checklists/:id): findFirst where id and
\* userId; the row, or NotFound.
findOne(id, userId) ==
    /\ reply' = Answer("findOne", id, userId,
                       IF \E c \in Checklist : c.id = id /\ c.userId = userId
                       THEN "checklist" ELSE "NotFound", {})
    /\ ReadOnly

\* -------------------------------------------------------------- web client
\* page.tsx, handleExtract: POST /documents/upload, the status poll, POST
\* /checklists/generate.  Each await is one step; a throw lands in the catch
\* (the error toast).
WebIdle == [pc |-> "idle", documentId |-> NULL, i |-> 0, status |-> "pending",
            isProcessing |-> FALSE, polls |-> 0, usePdfFile |-> FALSE,
            options |-> FALSE]

WebUser == "u1"

\* PdfUploader.tsx: the checkbox 'Enviar PDF como arquivo', onChange.
setUsePdfFile(checked) ==
    /\ web.usePdfFile # checked
    /\ web' = [web EXCEPT !.usePdfFile = checked]
    /\ UNCHANGED << dbVars, envVars, queue, pc, job, tmp, trace, failedAt,
                    foundDone, orphanTmp, origin, genVars, reply >>

\* PdfUploader's button (disabled while isProcessing) calls onExtract(file,
\* {usePdfFile}); page.tsx's handleExtract takes the file alone, sets
\* isProcessing and posts a form holding only the file.  A response that is
\* not ok throws, and the finally clears isProcessing.
handleExtract_upload(outcome) ==
    /\ ~web.isProcessing
    /\ web.pc \in {"idle", "shown", "error"}
    /\ createAndEnqueue(WebUser, outcome)
    /\ web' = IF outcome = "ok"
              THEN [web EXCEPT !.pc = "poll", !.documentId = NextDocId, !.i = 0,
                               !.status = "pending", !.isProcessing = TRUE,
                               !.polls = 0, !.options = web.usePdfFile]
              ELSE [WebIdle EXCEPT !.pc = "error",
                                   !.usePdfFile = web.usePdfFile,
                                   !.options = web.usePdfFile]

\* The GET of the status resolves with a body, or the fetch or its json()
\* rejects.
PollOutcomes == {"json", "throws"}

\* The loop with a failed status leaving it by break and no check after it.
handleExtract_poll_break(outcome) ==
    /\ web.pc = "poll"
    /\ IF web.i < MaxPolls
       THEN IF outcome = "throws"
            THEN web' = [web EXCEPT !.pc = "error", !.isProcessing = FALSE,
                                    !.polls = @ + 1]
            ELSE LET st == getStatus(web.documentId, WebUser)
                 IN  web' = [web EXCEPT
                           !.status = st,
                           !.polls = @ + 1,
                           !.pc = IF st \in {"done", "failed"} THEN "generate" ELSE "poll",
                           !.i = IF st \in {"done", "failed"} THEN @ ELSE @ + 1]
       ELSE web' = [web EXCEPT !.pc = "generate"]
    /\ UNCHANGED << dbVars, envVars, queue, pc, job, tmp, trace, failedAt,
                    foundDone, orphanTmp, origin, genVars, reply >>

\* for (let i = 0; i < 120; i++) { status = GET status; done: break; failed:
\* throw; wait 2 s }  if (status !== "done") throw.  Every throw lands in the
\* catch and then the finally.
handleExtract_poll(outcome) ==
    /\ web.pc = "poll"
    /\ IF web.i < MaxPolls
       THEN IF outcome = "throws"
            THEN web' = [web EXCEPT !.pc = "error", !.isProcessing = FALSE,
                                    !.polls = @ + 1]
            ELSE LET st == getStatus(web.documentId, WebUser)
                 IN  web' = [web EXCEPT
                           !.status = st,
                           !.polls = @ + 1,
                           !.pc = IF st = "done" THEN "generate"
                                  ELSE IF st = "failed" THEN "error" ELSE "poll",
                           !.isProcessing = (st # "failed"),
                           !.i = IF st \in {"done", "failed"} THEN @ ELSE @ + 1]
       ELSE web' = [web EXCEPT !.pc = IF web.status # "done" THEN "error"
                                     ELSE "generate",
                               !.isProcessing = (web.status = "done")]
    /\ UNCHANGED << dbVars, envVars, queue, pc, job, tmp, trace, failedAt,
                    foundDone, orphanTmp, origin, genVars, reply >>

\* POST /checklists/generate; its answer shown, or the error toast; finally.
handleExtract_generate(outcome) ==
    /\ web.pc = "generate"
    /\ generate(web.documentId, WebUser, outcome)
    /\ web' = [web EXCEPT
                  !.pc = IF generateAnswer(web.documentId, WebUser, outcome) = "checklist"
                         THEN "shown" ELSE "error",
                  !.isProcessing = FALSE]

\* ------------------------------------------------------------------ worker
\* The validation with fileUrl forgotten.
RequiredFieldsPresent_nofileurl(p) ==
    p.documentId # NULL /\ p.userId # NULL

\* process_job step 1: documentId, userId and fileUrl must all be there.
RequiredFieldsPresent(p) ==
    p.documentId # NULL /\ p.userId # NULL /\ p.fileUrl # NULL

Did(r, what) == trace' = [trace EXCEPT ![r] = @ \cup what]

\* main: brpop(QUEUE_NAME, timeout=30), json.loads, process_job(payload).
\* BRPOP takes the payload off the list as it returns it.
main_brpop(r) ==
    /\ pc[r] = "brpop"
    /\ Len(queue) > 0
    /\ job' = [job EXCEPT ![r] = brpopHead(queue)]
    /\ queue' = brpopRest(queue)
    /\ foundDone' = [foundDone EXCEPT ![r] = status(brpopHead(queue).documentId) = "done"]
    /\ pc' = [pc EXCEPT ![r] = "validate"]
    /\ UNCHANGED << dbVars, envVars, tmp, trace, failedAt, orphanTmp >>
    /\ UNCHANGED << webVars, genVars, reply >>

\* 1. Validate documentId, userId, fileUrl; if something is missing, log and return.
validate(r) ==
    /\ pc[r] = "validate"
    /\ pc' = [pc EXCEPT ![r] = IF RequiredFieldsPresent(job[r])
                                THEN "set_processing" ELSE "returned"]
    /\ UNCHANGED << dbVars, envVars, queue, job, tmp, trace, failedAt,
                    foundDone, orphanTmp >>
    /\ UNCHANGED << webVars, genVars, reply >>

\* 2. DB: UPDATE Document SET status = 'processing'.
set_processing(r) ==
    /\ pc[r] = "set_processing"
    /\ UpdateStatus(job[r].documentId, "processing")
    /\ Did(r, {"update_processing"})
    /\ pc' = [pc EXCEPT ![r] = "download"]
    /\ UNCHANGED << Checklist, nextChecklistId, completions, deleted, envVars,
                    queue, job, tmp, failedAt, foundDone, orphanTmp >>
    /\ UNCHANGED << webVars, genVars, reply >>

Raise(r, stage) ==
    /\ failedAt' = [failedAt EXCEPT ![r] = stage]
    /\ pc' = [pc EXCEPT ![r] = "except"]

\* 3. Download: download_to_temp(file_url, file_name) -> temporary path.
download_to_temp(r, ok) ==
    /\ pc[r] = "download"
    /\ Did(r, {"download"})
    /\ IF ok
       THEN /\ tmp' = [tmp EXCEPT ![r] = TRUE]
            /\ pc' = [pc EXCEPT ![r] = "generate"]
            /\ UNCHANGED failedAt
       ELSE /\ Raise(r, "download")
            /\ UNCHANGED tmp
    /\ UNCHANGED << dbVars, envVars, queue, job, foundDone, orphanTmp >>
    /\ UNCHANGED << webVars, genVars, reply >>

\* 5. Choose the mode and generate the checklist.  PDF mode: upload the PDF,
\* then one Responses call per block of CHECKLIST_BLOCKS.  Text mode: parse,
\* embed, then per block retrieval and one Chat call.  Each block result is
\* flattened and merged; then schemaVersion, defaults, normalisation.
\* Stage number k is the last one called: with ok it is the last block and
\* the checklist is ready; otherwise its call raises (a provider error, a
\* timeout, an output that does not match the block's json_schema).
ModeStages(p) == IF p.usePdfFile THEN << "upload_pdf" >> ELSE << "parse", "embed" >>

Stages(p) == ModeStages(p) \o CHECKLIST_BLOCKS

\* The provider a stage calls.
CallKind(stage) ==
    IF stage \in {"upload_pdf", "parse", "embed"} THEN stage ELSE "llm"

\* The calls of stages 1..k were made; "merged" says that at least one block
\* result was flattened and merged into the accumulator.
BlocksDone(p, k, ok) ==
    IF k - (IF ok THEN 0 ELSE 1) > Len(ModeStages(p))
    THEN k - (IF ok THEN 0 ELSE 1) - Len(ModeStages(p)) ELSE 0

CallsMade(p, k, ok) ==
    { CallKind(Stages(p)[i]) : i \in 1..k }
    \cup (IF BlocksDone(p, k, ok) > 0 THEN {"merged"} ELSE {})

generate_checklist(r, k, ok) ==
    /\ pc[r] = "generate"
    /\ k \in 1..Len(Stages(job[r]))
    /\ ok => k = Len(Stages(job[r]))
    /\ Did(r, CallsMade(job[r], k, ok))
    /\ IF ok
       THEN /\ pc' = [pc EXCEPT ![r] = "insert_checklist"]
            /\ UNCHANGED failedAt
       ELSE Raise(r, CallKind(Stages(job[r])[k]))
    /\ UNCHANGED << dbVars, envVars, queue, job, tmp, foundDone, orphanTmp >>
    /\ UNCHANGED << webVars, genVars, reply >>

\* insert_checklist with its exception swallowed: the job goes on to step 7.
insert_checklist_swallow(r, dbok) ==
    /\ pc[r] = "insert_checklist"
    /\ IF /\ dbok
          /\ Checklist_documentId_key(Checklist, job[r].documentId)
          /\ Checklist_documentId_fkey(job[r].documentId)
       THEN /\ Did(r, {"insert_checklist", "inserted"})
            /\ Checklist' = Checklist \cup
                   {[id |-> nextChecklistId + 1, userId |-> job[r].userId,
                     documentId |-> job[r].documentId]}
            /\ nextChecklistId' = nextChecklistId + 1
            /\ deleted' = deleted \ {job[r].documentId}
       ELSE /\ Did(r, {"insert_checklist"})
            /\ UNCHANGED << Checklist, nextChecklistId, deleted >>
    /\ pc' = [pc EXCEPT ![r] = "set_done"]
    /\ UNCHANGED << Document, completions, envVars, queue, job, tmp, failedAt,
                    foundDone, orphanTmp >>
    /\ UNCHANGED << webVars, genVars, reply >>

\* 6. DB: insert_checklist(conn, user_id, file_name, data, document_id): a row
\* of Checklist with documentId = document_id, under the table's UNIQUE index
\* and foreign key.
insert_checklist(r, dbok) ==
    /\ pc[r] = "insert_checklist"
    /\ IF /\ dbok
          /\ Checklist_documentId_key(Checklist, job[r].documentId)
          /\ Checklist_documentId_fkey(job[r].documentId)
       THEN /\ Did(r, {"insert_checklist", "inserted"})
            /\ Checklist' = Checklist \cup
                   {[id |-> nextChecklistId + 1, userId |-> job[r].userId,
                     documentId |-> job[r].documentId]}
            /\ nextChecklistId' = nextChecklistId + 1
            /\ deleted' = deleted \ {job[r].documentId}
            /\ pc' = [pc EXCEPT ![r] = "set_done"]
            /\ UNCHANGED failedAt
       ELSE /\ Did(r, {"insert_checklist"})
            /\ Raise(r, IF ~ dbok THEN "insert_checklist"
                        ELSE IF ~ Checklist_documentId_key(Checklist, job[r].documentId)
                             THEN "unique_violation" ELSE "fkey_violation")
            /\ UNCHANGED << Checklist, nextChecklistId, deleted >>
    /\ UNCHANGED << Document, completions, envVars, queue, job,
                    tmp, foundDone, orphanTmp >>
    /\ UNCHANGED << webVars, genVars, reply >>

\* 7. DB: UPDATE Document SET status = 'done'.
set_done(r, dbok) ==
    /\ pc[r] = "set_done"
    /\ Did(r, {"update_done"})
    /\ IF dbok
       THEN /\ UpdateStatus(job[r].documentId, "done")
            /\ completions' =
                  IF RowExists(job[r].documentId) /\ "inserted" \in trace[r]
                  THEN [completions EXCEPT ![job[r].documentId] = @ + 1]
                  ELSE completions
            /\ pc' = [pc EXCEPT ![r] = "finally"]
            /\ UNCHANGED failedAt
       ELSE /\ Raise(r, "set_done")
            /\ UNCHANGED << Document, completions >>
    /\ UNCHANGED << Checklist, nextChecklistId, deleted, envVars, queue, job, tmp, foundDone, orphanTmp >>
    /\ UNCHANGED << webVars, genVars, reply >>

\* An except branch that logs and writes nothing.
except_logonly(r, dbok) ==
    /\ pc[r] = "except"
    /\ pc' = [pc EXCEPT ![r] = "finally"]
    /\ UNCHANGED << dbVars, envVars, queue, job, tmp, trace, failedAt,
                    foundDone, orphanTmp >>
    /\ UNCHANGED << webVars, genVars, reply >>

\* 8. On exception: status = 'failed'.  The UPDATE is a database call like the
\* one of step 7: when it raises in its turn, no status is written and the
\* exception leaves process_job through the finally.
except(r, dbok) ==
    /\ pc[r] = "except"
    /\ IF dbok
       THEN /\ UpdateStatus(job[r].documentId, "failed")
            /\ Did(r, {"update_failed"})
       ELSE /\ Did(r, {"update_failed_raised"})
            /\ UNCHANGED Document
    /\ pc' = [pc EXCEPT ![r] = "finally"]
    /\ UNCHANGED << Checklist, nextChecklistId, completions, deleted, envVars,
                    queue, job, tmp, failedAt, foundDone, orphanTmp >>
    /\ UNCHANGED << webVars, genVars, reply >>

\* finally without the removal.
finally_keep(r) ==
    /\ pc[r] = "finally"
    /\ pc' = [pc EXCEPT ![r] = "returned"]
    /\ UNCHANGED << dbVars, envVars, queue, job, tmp, trace, failedAt,
                    foundDone, orphanTmp >>
    /\ UNCHANGED << webVars, genVars, reply >>

\* 9. finally: remove the temporary file; process_job returns.
finally(r) ==
    /\ pc[r] = "finally"
    /\ tmp' = [tmp EXCEPT ![r] = FALSE]
    /\ pc' = [pc EXCEPT ![r] = "returned"]
    /\ UNCHANGED << dbVars, envVars, queue, job, trace, failedAt,
                    foundDone, orphanTmp >>
    /\ UNCHANGED << webVars, genVars, reply >>

\* main: process_job returned, back to brpop.
main_loop(r) ==
    /\ pc[r] = "returned"
    /\ pc' = [pc EXCEPT ![r] = "brpop"]
    /\ job' = [job EXCEPT ![r] = NoJob]
    /\ trace' = [trace EXCEPT ![r] = {}]
    /\ failedAt' = [failedAt EXCEPT ![r] = NULL]
    /\ foundDone' = [foundDone EXCEPT ![r] = FALSE]
    /\ UNCHANGED << dbVars, envVars, queue, tmp, orphanTmp >>
    /\ UNCHANGED << webVars, genVars, reply >>

\* ------------------------------------------------ the checklist as a value
\* A checklist (and a flat block result) is a dict: a function from keys to
\* values; a value carries its JSON type.
\* A string is the sequence of its characters.
Text(chars) == [t |-> "str", v |-> chars]
Bool(b) == [t |-> "bool", v |-> b]
Num(n) == [t |-> "int", v |-> n]
List(l) == [t |-> "list", v |-> l]
Dict(f) == [t |-> "dict", v |-> f]
None == [t |-> "null", v |-> "null"]
EmptyDict == << >>

\* d.get(k) one or two levels down; Absent when the key (or the sub-tree) is
\* not there.
Absent == [t |-> "absent", v |-> "absent"]

Get(d, path) ==
    IF path[1] \notin DOMAIN d THEN Absent
    ELSE IF Len(path) = 1 THEN d[path[1]]
    ELSE IF d[path[1]].t # "dict" THEN Absent
    ELSE IF path[2] \notin DOMAIN d[path[1]].v THEN Absent
    ELSE d[path[1]].v[path[2]]

\* Dicts that may or may not carry key k, with a value of vals.
Opt(k, vals) == { EmptyDict } \cup { k :> x : x \in vals }

\* The dicts made of one dict of A and one of B (different keys).
Both(A, B) == { f @@ g : f \in A, g \in B }

\* ------------------------------------------------------------------ merge
\* A plain recursive update: the later scalar overwrites the earlier one.
RECURSIVE _deep_merge_checklist_laterwins(_, _)
_deep_merge_checklist_laterwins(base, block_result) ==
    [k \in DOMAIN base \cup (DOMAIN block_result \ {"evidence"}) |->
        IF k \notin DOMAIN block_result \/ k = "evidence" THEN base[k]
        ELSE IF k \notin DOMAIN base THEN block_result[k]
        ELSE IF base[k].t = "dict" /\ block_result[k].t = "dict"
             THEN Dict(_deep_merge_checklist_laterwins(base[k].v, block_result[k].v))
        ELSE block_result[k]]

\* _deep_merge_checklist(base, block_result): merge into base; the key
\* evidence is left to its own path; lists are replaced; dicts are merged
\* recursively; a scalar of the block is taken only where base has nothing,
\* null or the empty string.
RECURSIVE _deep_merge_checklist(_, _)
_deep_merge_checklist(base, block_result) ==
    [k \in DOMAIN base \cup (DOMAIN block_result \ {"evidence"}) |->
        IF k \notin DOMAIN block_result \/ k = "evidence" THEN base[k]
        ELSE IF k \notin DOMAIN base THEN block_result[k]
        ELSE IF block_result[k].t = "list" THEN block_result[k]
        ELSE IF base[k].t = "dict" /\ block_result[k].t = "dict"
             THEN Dict(_deep_merge_checklist(base[k].v, block_result[k].v))
        ELSE IF base[k] \in {Text(<< >>), None} THEN block_result[k]
        ELSE base[k]]

\* Accumulators and block results one merge is tried on.
MergeBases ==
    Both(Opt("modalidadeLicitacao", {Text(<< >>), None, Text(<< "A" >>)}),
    Both(Opt("edital", {Dict(f) : f \in Opt("orgao", {Text(<< >>), None, Text(<< "A", "c", "m", "e" >>)})}),
    Both(Opt("visitaTecnica", {Bool(FALSE)}),
         Opt("documentos", {List(<< >>), List(<< "certidao" >>)}))))

MergeBlocks ==
    Both(Opt("modalidadeLicitacao", {Text(<< >>), Text(<< "B" >>)}),
    Both(Opt("edital", {Dict(f) : f \in Opt("orgao", {Text(<< >>), Text(<< "B", "e", "t", "a" >>)})
                                        \cup {"portal" :> Text(<< "P" >>)}}),
    Both(Opt("visitaTecnica", {Bool(TRUE)}),
    Both(Opt("documentos", {List(<< >>), List(<< "balanco" >>)}),
         Opt("evidence", {Dict("edital" :> Text(<< "t", "r", "e", "c", "h", "o" >>))})))))

\* merged = base; _deep_merge_checklist(merged, flat)
deep_merge_step ==
    /\ gpc = "merge"
    /\ merged' = _deep_merge_checklist(merged, flats[2].flat)
    /\ gpc' = "merge_done"
    /\ UNCHANGED << flats, calls, sysVars, retrieval, chunking >>

\* ------------------------------------------------------- the block loop
\* One entry of the documentos block's requisitos.
Requisito(categoria, descricao, referencia, local) ==
    Dict(("categoria" :> Text(categoria)) @@ ("descricao" :> Text(descricao))
            @@ ("referencia" :> Text(referencia)) @@ ("local" :> Text(local)))

\* The categorias of requisitos, each once, in the order met.
RECURSIVE Categorias(_, _)
Categorias(requisitos, seen) ==
    IF requisitos = << >> THEN << >>
    ELSE IF Head(requisitos).v["categoria"] \in seen
         THEN Categorias(Tail(requisitos), seen)
         ELSE << Head(requisitos).v["categoria"] >>
              \o Categorias(Tail(requisitos), seen \cup {Head(requisitos).v["categoria"]})

\* _requisitos_to_documentos(requisitos): one group (categoria, itens) per
\* categoria, groups and items in the order met.
_requisitos_to_documentos(requisitos) ==
    LET cats == Categorias(requisitos, {})
        ItemOf(r) == Dict(("documento" :> r.v["descricao"])
                            @@ ("referencia" :> r.v["referencia"])
                            @@ ("local" :> r.v["local"]))
    IN  [g \in 1..Len(cats) |->
            LET InGroup(r) == r.v["categoria"] = cats[g]
                mine == SelectSeq(requisitos, InGroup)
            IN  Dict(("categoria" :> cats[g])
                       @@ ("itens" :> List([i \in 1..Len(mine) |-> ItemOf(mine[i])])))]

\* requisitos an LLM can return: two categorias interleaved, one requirement
\* given twice with another local.
Requisitos ==
    << Requisito(<< "h", "a", "b" >>, << "c", "n", "d" >>, << "7", ".", "1" >>, << "e", "n", "v", "1" >>),
       Requisito(<< "t", "e", "c" >>, << "a", "r", "t" >>, << "8", ".", "2" >>, << "e", "n", "v", "1" >>),
       Requisito(<< "h", "a", "b" >>, << "c", "n", "d" >>, << "7", ".", "1" >>, << "e", "n", "v", "2" >>) >>

\* What _flatten_block_result can give for each block of CHECKLIST_BLOCKS: the
\* block's fields in the final shape, any of them left out.  The edital and
\* the modalidade_participacao block can both fill modalidadeLicitacao.
BlockFlats(block_key) ==
    CASE block_key = "edital" ->
            Both(Opt("edital", {Dict("orgao" :> Text(<< "P", "r", "e", "f", "e", "i", "t", "u", "r", "a" >>))}),
                 Opt("modalidadeLicitacao", {Text(<< >>), Text(<< "C", "o", "n", "c", "o", "r", "r", "e", "n", "c", "i", "a" >>)}))
      [] block_key = "modalidade_participacao" ->
            Both(Opt("modalidadeLicitacao", {Text(<< "P", "r", "e", "g", "a", "o" >>)}),
                 Opt("participacao", {Dict("permiteConsorcio" :> Bool(TRUE))}))
      [] block_key = "prazos" ->
            Opt("prazos", {Dict("contatoEsclarecimentoImpugnacao" :> Text(<< "l", "i", "c", "i", "t", "a", "@", "x" >>))})
      [] block_key = "documentos" ->
            { EmptyDict,
              ("requisitos" :> List(Requisitos))
                 @@ ("documentos" :> List(_requisitos_to_documentos(Requisitos))) }
      [] block_key = "visita_proposta" ->
            Both(Opt("visitaTecnica", {Bool(TRUE)}),
                 Opt("proposta", {Dict("validadeProposta" :> Text(<< "6", "0", " ", "d", "i", "a", "s" >>))}))
      [] block_key = "sessao_disputa" ->
            Opt("sessao", {Dict("abertoFechado" :> Text(<< "a", "b", "e", "r", "t", "o" >>))})
      [] block_key = "pagamento_contrato" ->
            Opt("outrosEdital", {Dict("mecanismoPagamento" :> Text(<< "3", "0", " ", "d", "i", "a", "s" >>))})
      [] block_key = "analise" ->
            Opt("recomendacao", {Text(<< "p", "a", "r", "t", "i", "c", "i", "p", "a", "r" >>)})

BlockKeys == { CHECKLIST_BLOCKS[i] : i \in 1..Len(CHECKLIST_BLOCKS) }

AllFlats == UNION { BlockFlats(k) : k \in BlockKeys }

\* An Evidence record: trecho, ref, page.
Evidence(trecho, page) ==
    Dict(("trecho" :> Text(trecho)) @@ ("ref" :> Text(<< "7", ".", "1" >>))
            @@ ("page" :> Num(page)))

\* The evidence dictionary _flatten_block_result can give beside the flat one:
\* none, or the Evidence of a field, keyed as the field is in the flat one.
BlockEvidence(block_key) ==
    CASE block_key = "edital" ->
            { EmptyDict,
              "edital" :> Dict("orgao" :> Evidence(<< "P", "r", "e", "f" >>, 1)),
              "modalidadeLicitacao" :> Evidence(<< "C", "o", "n", "c" >>, 2) }
      [] block_key = "modalidade_participacao" ->
            { EmptyDict, "modalidadeLicitacao" :> Evidence(<< "P", "r", "e", "g" >>, 3) }
      [] OTHER -> { EmptyDict }

AllEvidence == UNION { BlockEvidence(k) : k \in BlockKeys }

FlatsDone == { flats[i].key : i \in 1..Len(flats) }

\* The evidence of a block threaded through the data merge.
merge_evidence_deep(m, block_key, evidence) ==
    _deep_merge_checklist(m, evidence)

\* "Se houver evidence, fazer merge em merged[evidence]": the block's
\* evidence dictionary goes under merged.evidence, at the block's key.
merge_evidence(m, block_key, evidence) ==
    IF evidence = EmptyDict THEN m
    ELSE [k \in DOMAIN m \cup {"evidence"} |->
            IF k = "evidence"
            THEN Dict((block_key :> Dict(evidence))
                        @@ (IF "evidence" \in DOMAIN m THEN m["evidence"].v ELSE EmptyDict))
            ELSE m[k]]

\* The worker whose step 5 is followed call by call.
GenRunner == "w1"

Call(fn, block) == [fn |-> fn, block |-> block]

\* 3.1 Upload: _upload_pdf_to_openai(pdf_path, file_name) -> file_id.
upload_pdf_step ==
    /\ gpc = "start"
    /\ job[GenRunner].usePdfFile
    /\ calls' = Append(calls, Call("_upload_pdf_to_openai", NULL))
    /\ gpc' = "blocks"
    /\ UNCHANGED << merged, flats, sysVars, retrieval, chunking >>

\* 4.1.1 Parse: parse_file_to_normalized_chunks(file_path, file_name).
parse_step ==
    /\ gpc = "start"
    /\ ~ job[GenRunner].usePdfFile
    /\ calls' = Append(calls, Call("parse_file_to_normalized_chunks", NULL))
    /\ gpc' = "embed"
    /\ UNCHANGED << merged, flats, sysVars, retrieval, chunking >>

\* 4.1.2 Embeddings: embed_chunks(openai_client, normalized_chunks).
embed_step ==
    /\ gpc = "embed"
    /\ calls' = Append(calls, Call("embed_chunks", NULL))
    /\ gpc' = "blocks"
    /\ UNCHANGED << merged, flats, sysVars, retrieval, chunking >>

\* Every block going through the retrieval, whatever the mode.
BlockCalls_textonly(block_key) ==
    << Call("retrieve_for_block", block_key), Call("_generate_one_block", block_key) >>

\* The calls one block makes: the Responses call on the uploaded file, or the
\* retrieval and the Chat call on the chunks retrieved.
BlockCalls(block_key) ==
    IF job[GenRunner].usePdfFile
    THEN << Call("_generate_one_block_from_pdf_file", block_key) >>
    ELSE << Call("retrieve_for_block", block_key), Call("_generate_one_block", block_key) >>

\* The block calls running side by side, each result merged as it arrives.
block_step_as_completed(flat, evidence) ==
    /\ gpc = "blocks"
    /\ \E block_key \in BlockKeys \ FlatsDone :
          /\ flat \in BlockFlats(block_key)
          /\ evidence \in BlockEvidence(block_key)
          /\ flats' = Append(flats, [key |-> block_key, flat |-> flat])
          /\ calls' = calls \o BlockCalls(block_key)
          /\ merged' = _deep_merge_checklist(merge_evidence(merged, block_key, evidence), flat)
    /\ gpc' = IF Len(flats) + 1 = Len(CHECKLIST_BLOCKS) THEN "schemaVersion" ELSE "blocks"
    /\ UNCHANGED << sysVars, retrieval, chunking >>

\* for block in CHECKLIST_BLOCKS: generate the block, _flatten_block_result ->
\* (flat, evidence), evidence into merged.evidence,
\* _deep_merge_checklist(merged, flat).  One pass of the loop body; the call
\* of the next block starts when this one has been merged.
block_step(flat, evidence) ==
    /\ gpc = "blocks"
    /\ LET block_key == CHECKLIST_BLOCKS[Len(flats) + 1]
       IN  /\ flat \in BlockFlats(block_key)
           /\ evidence \in BlockEvidence(block_key)
           /\ flats' = Append(flats, [key |-> block_key, flat |-> flat])
           /\ calls' = calls \o BlockCalls(block_key)
           /\ merged' = _deep_merge_checklist(merge_evidence(merged, block_key, evidence), flat)
    /\ gpc' = IF Len(flats) + 1 = Len(CHECKLIST_BLOCKS) THEN "schemaVersion" ELSE "blocks"
    /\ UNCHANGED << sysVars, retrieval, chunking >>

\* A call of step 5 raises (a provider error, a timeout, an output that does
\* not match the block's json_schema): process_job's except takes over.
NextCalls ==
    CASE gpc = "start" -> IF job[GenRunner].usePdfFile
                          THEN << Call("_upload_pdf_to_openai", NULL) >>
                          ELSE << Call("parse_file_to_normalized_chunks", NULL) >>
      [] gpc = "embed" -> << Call("embed_chunks", NULL) >>
      [] gpc = "blocks" -> BlockCalls(CHECKLIST_BLOCKS[Len(flats) + 1])
      [] OTHER -> << >>

call_raises(n) ==
    /\ gpc \in {"start", "embed", "blocks"}
    /\ n \in 1..Len(NextCalls)
    /\ calls' = calls \o SubSeq(NextCalls, 1, n)
    /\ gpc' = "raised"
    /\ Raise(GenRunner, "generate_checklist")
    /\ UNCHANGED << merged, flats, dbVars, envVars, queue, job, tmp, trace,
                    foundDone, orphanTmp, webVars, reply, retrieval, chunking >>

\* merged.setdefault("schemaVersion", 2)
set_schemaVersion ==
    /\ gpc = "schemaVersion"
    /\ merged' = IF "schemaVersion" \in DOMAIN merged THEN merged
                 ELSE merged @@ ("schemaVersion" :> Num(2))
    /\ gpc' = "defaults"
    /\ UNCHANGED << flats, calls, sysVars, retrieval, chunking >>

\* --------------------------------------------------------------- defaults
\* The keys of CHECKLIST_JSON_SCHEMA by type.
STRING_KEYS == {"modalidadeLicitacao", "responsavelAnalise", "recomendacao"}
BOOL_KEYS == {"visitaTecnica"}
LIST_KEYS == {"documentos", "requisitos"}
OBJECT_KEYS == {"edital", "prazos", "sessao", "proposta", "outrosEdital"}
PARTICIPACAO_KEYS == {"permiteConsorcio", "beneficiosMPE"}
SCHEMA_KEYS ==
    STRING_KEYS \cup BOOL_KEYS \cup LIST_KEYS \cup OBJECT_KEYS
        \cup {"participacao", "schemaVersion"}

DefaultValue(k) ==
    CASE k \in STRING_KEYS -> Text(<< >>)
      [] k \in BOOL_KEYS -> Bool(FALSE)
      [] k \in LIST_KEYS -> List(<< >>)
      [] k \in OBJECT_KEYS -> Dict(EmptyDict)
      [] k = "participacao" -> Dict([b \in PARTICIPACAO_KEYS |-> Bool(FALSE)])
      [] k = "schemaVersion" -> Num(2)

\* Defaults for the missing top-level keys only.
_fill_checklist_defaults_toplevel(m) ==
    [k \in DOMAIN m \cup SCHEMA_KEYS |-> IF k \in DOMAIN m THEN m[k] ELSE DefaultValue(k)]

\* _fill_checklist_defaults(merged): every key of the schema is there
\* afterwards; what is missing gets its default, the booleans of participacao
\* included.
_fill_checklist_defaults(m) ==
    [k \in DOMAIN m \cup SCHEMA_KEYS |->
        IF k \notin DOMAIN m THEN DefaultValue(k)
        ELSE IF k = "participacao" /\ m[k].t = "dict"
             THEN Dict([b \in DOMAIN m[k].v \cup PARTICIPACAO_KEYS |->
                           IF b \in DOMAIN m[k].v THEN m[k].v[b] ELSE Bool(FALSE)])
        ELSE m[k]]

fill_defaults_step ==
    /\ gpc = "defaults"
    /\ merged' = _fill_checklist_defaults(merged)
    /\ gpc' = "normalize"
    /\ UNCHANGED << flats, calls, sysVars, retrieval, chunking >>

\* ------------------------------------------------------------- normaliser
DIGITS == {"0", "1", "2", "3", "4", "5", "6", "7", "8", "9"}
QUOTES == {"'", "\""}

IsDigits(s) == \A i \in 1..Len(s) : s[i] \in DIGITS

RECURSIVE LStrip(_)
LStrip(s) == IF s # << >> /\ Head(s) = " " THEN LStrip(Tail(s)) ELSE s

RECURSIVE RStrip(_, _)
RStrip(s, chars) ==
    IF s # << >> /\ s[Len(s)] \in chars THEN RStrip(SubSeq(s, 1, Len(s) - 1), chars) ELSE s

Strip(s) == RStrip(LStrip(s), {" "})

LowerChar(c) ==
    CASE c = "S" -> "s" [] c = "N" -> "n" [] c = "T" -> "t" [] c = "F" -> "f"
      [] c = "Y" -> "y" [] OTHER -> c

Lower(s) == [i \in 1..Len(s) |-> LowerChar(s[i])]

\* Month names of the long date form and their numbers.
MONTHS ==
    { << << "m", "a", "r", "c", "o" >>, << "0", "3" >> >>,
      << << "m", "a", "i", "o" >>, << "0", "5" >> >>,
      << << "d", "e", "z", "e", "m", "b", "r", "o" >>, << "1", "2" >> >> }

DE == << " ", "d", "e", " " >>

\* What the date formats accept as day and month: two digits, 01..31 and 01..12.
ValidDayMonth(dd, mm) ==
    /\ Len(dd) = Len(<< "d", "d" >>) /\ IsDigits(dd) /\ dd # << "0", "0" >>
    /\ dd[1] \in {"0", "1", "2"} \/ (dd[1] = "3" /\ dd[2] \in {"0", "1"})
    /\ Len(mm) = Len(<< "m", "m" >>) /\ IsDigits(mm) /\ mm # << "0", "0" >>
    /\ mm[1] = "0" \/ (mm[1] = "1" /\ mm[2] \in {"0", "1", "2"})

ValidYear(yyyy) == Len(yyyy) = Len(<< "y", "y", "y", "y" >>) /\ IsDigits(yyyy)

FormatDate(dd, mm, yyyy) == dd \o << "/" >> \o mm \o << "/" >> \o yyyy

\* The three numeric formats: two separators sep, the fields at the places
\* the format gives them.
NumericDate(s, sep, yearFirst) ==
    LET n == Len(s)
        a == IF yearFirst THEN SubSeq(s, 1, 4) ELSE SubSeq(s, 1, 2)
        b == IF yearFirst THEN SubSeq(s, 6, 7) ELSE SubSeq(s, 4, 5)
        c == IF yearFirst THEN SubSeq(s, 9, 10) ELSE SubSeq(s, 7, 10)
        p == IF yearFirst THEN 5 ELSE 3
        q == IF yearFirst THEN 8 ELSE 6
    IN  IF n = Len(FormatDate(<< "d", "d" >>, << "m", "m" >>, << "y", "y", "y", "y" >>))
           /\ s[p] = sep /\ s[q] = sep
        THEN IF yearFirst
             THEN IF ValidYear(a) /\ ValidDayMonth(c, b) THEN << c, b, a >> ELSE << >>
             ELSE IF ValidYear(c) /\ ValidDayMonth(a, b) THEN << a, b, c >> ELSE << >>
        ELSE << >>

\* DD de <month> de YYYY
LongDate(s) ==
    LET n == Len(s)
        dd == SubSeq(s, 1, 2)
        yyyy == SubSeq(s, n - 3, n)
        name == SubSeq(s, 3 + Len(DE), n - 4 - Len(DE))
    IN  IF /\ n > 6 + 2 * Len(DE)
           /\ SubSeq(s, 3, 2 + Len(DE)) = DE
           /\ SubSeq(s, n - 3 - Len(DE), n - 4) = DE
           /\ ValidYear(yyyy)
           /\ \E m \in MONTHS : m[1] = Lower(name) /\ ValidDayMonth(dd, m[2])
        THEN << dd, (CHOOSE m \in MONTHS : m[1] = Lower(name))[2], yyyy >>
        ELSE << >>

\* Dates: a value in one of DD/MM/YYYY, YYYY-MM-DD, DD-MM-YYYY,
\* DD de <month> de YYYY is rewritten to DD/MM/YYYY, any other value is kept.
_normalize_date(s) ==
    LET t == Strip(s)
        parses == << NumericDate(t, "/", FALSE), NumericDate(t, "-", TRUE),
                     NumericDate(t, "-", FALSE), LongDate(t) >>
        hits == { i \in DOMAIN parses : parses[i] # << >> }
    IN  IF hits = {} THEN s
        ELSE LET d == parses[CHOOSE i \in hits : \A j \in hits : i <= j]
             IN  FormatDate(d[1], d[2], d[3])

\* ^\d{1,3}(\.\d{3})*$ on the part before the comma
RECURSIVE IsThousands(_, _)
IsThousands(s, first) ==
    LET dots == { i \in 1..Len(s) : s[i] = "." }
    IN  IF dots = {} THEN IsDigits(s) /\ (IF first THEN Len(s) \in 1..3 ELSE Len(s) = 3)
        ELSE LET i == CHOOSE x \in dots : \A y \in dots : x <= y
             IN  /\ IsDigits(SubSeq(s, 1, i - 1))
                 /\ IF first THEN (i - 1) \in 1..3 ELSE i - 1 = 3
                 /\ IsThousands(SubSeq(s, i + 1, Len(s)), FALSE)

\* ^\s*\d{1,3}(\.\d{3})*,\d{2}\s*$
IsMoney(s) ==
    LET t == Strip(s)
        n == Len(t)
    IN  /\ n >= 4
        /\ t[n - 2] = ","
        /\ IsDigits(SubSeq(t, n - 1, n))
        /\ IsThousands(SubSeq(t, 1, n - 3), TRUE)

REAIS == << "R", "$", " " >>

\* Money: only a text that looks like a monetary value gets the R$ in front.
_normalize_money(s) == IF IsMoney(s) THEN REAIS \o Strip(s) ELSE s

TRUE_WORDS == { << "t", "r", "u", "e" >>, << "s", "i", "m" >>, << "y", "e", "s" >>, << "1" >> }
FALSE_WORDS == { << "f", "a", "l", "s", "e" >>, << "n", "a", "o" >>, << "n", "o" >>, << "0" >>, << >> }

\* Booleans: the words and numbers for true and false; any other text of a
\* BoolField is true; a missing value is false.
_normalize_bool(x) ==
    IF x.t = "bool" THEN x
    ELSE IF x.t = "int" THEN Bool(x.v # 0)
    ELSE IF x.t = "str"
         THEN IF Lower(Strip(x.v)) \in TRUE_WORDS THEN Bool(TRUE)
              ELSE IF Lower(Strip(x.v)) \in FALSE_WORDS THEN Bool(FALSE)
              ELSE Bool(TRUE)
    ELSE Bool(FALSE)

ItemKey(item) == << Get(item.v, << "documento" >>), Get(item.v, << "referencia" >>) >>

\* The deduplication keeping the last item of each (documento, referencia).
RECURSIVE _dedupe_itens_keeplast(_, _)
_dedupe_itens_keeplast(itens, seen) ==
    IF itens = << >> THEN << >>
    ELSE IF \E j \in 2..Len(itens) : ItemKey(itens[j]) = ItemKey(Head(itens))
         THEN _dedupe_itens_keeplast(Tail(itens), seen)
         ELSE << Head(itens) >> \o _dedupe_itens_keeplast(Tail(itens), seen)

\* documentos[].itens without the later items of an equal (documento, referencia)
RECURSIVE _dedupe_itens(_, _)
_dedupe_itens(itens, seen) ==
    IF itens = << >> THEN << >>
    ELSE IF ItemKey(Head(itens)) \in seen THEN _dedupe_itens(Tail(itens), seen)
    ELSE << Head(itens) >> \o _dedupe_itens(Tail(itens), seen \cup {ItemKey(Head(itens))})

EVIDENCIA == << "e", "v", "i", "d", "e", "n", "c", "i", "a" >>
TRECHO == << "t", "r", "e", "c", "h", "o" >>
ELLIPSIS == << ".", ".", "." >>

RECURSIVE SkipSpaces(_, _)
SkipSpaces(s, i) == IF i <= Len(s) /\ s[i] = " " THEN SkipSpaces(s, i + 1) ELSE i

WordAt(s, i, w) == i + Len(w) - 1 <= Len(s) /\ SubSeq(s, i, i + Len(w) - 1) = w

\* [,'"]\s*evidencia\s*[:{] matches at i
EvidenciaAt(s, i) ==
    /\ s[i] \in QUOTES \cup {","}
    /\ LET j == SkipSpaces(s, i + 1)
       IN  /\ WordAt(s, j, EVIDENCIA)
           /\ LET k == SkipSpaces(s, j + Len(EVIDENCIA))
              IN  k <= Len(s) /\ s[k] \in {":", "{"}

\* ["']?trecho["']?\s*: matches at i
TrechoAt(s, i) ==
    LET j == IF s[i] \in QUOTES /\ ~ WordAt(s, i, TRECHO) THEN i + 1 ELSE i
    IN  /\ WordAt(s, j, TRECHO)
        /\ LET k == j + Len(TRECHO)
               k2 == IF k <= Len(s) /\ s[k] \in QUOTES THEN k + 1 ELSE k
               k3 == SkipSpaces(s, k2)
           IN  k3 <= Len(s) /\ s[k3] = ":"

\* s up to the first place where the pattern matches
CutAt(s, hits) ==
    IF hits = {} THEN s
    ELSE SubSeq(s, 1, (CHOOSE i \in hits : \A j \in hits : i <= j) - 1)

StripEvidence(s) ==
    LET s1 == CutAt(s, { i \in 1..Len(s) : EvidenciaAt(s, i) })
    IN  CutAt(s1, { i \in 1..Len(s1) : TrechoAt(s1, i) })

\* The backtick character, which a string of this module cannot hold.
BACKTICK == "backtick"

JUNK == QUOTES \cup {"}", BACKTICK, " "}

Truncate(s) ==
    IF Len(s) > MaxMecanismoChars THEN SubSeq(s, 1, MaxMecanismoChars) \o ELLIPSIS ELSE s

\* One pass for each kind of trailing junk: braces, then backticks, then quotes.
_sanitize_mecanismo_pagamento_onepass(s) ==
    Truncate(RStrip(RStrip(RStrip(RStrip(StripEvidence(s), {" "}), {"}"}), {BACKTICK}), QUOTES))

\* mecanismoPagamento: the evidence fragment and what follows it goes, then
\* the dangling braces, backticks and quotes at the end, then the text is cut
\* at the maximum length with an ellipsis.
_sanitize_mecanismo_pagamento(s) == Truncate(RStrip(StripEvidence(s), JUNK))

normalize_edital(x) ==
    IF x.t # "dict" THEN x
    ELSE Dict([k \in DOMAIN x.v |->
                 IF k = "dataSessao" /\ x.v[k].t = "str" THEN Text(_normalize_date(x.v[k].v))
                 ELSE IF k = "totalReais" /\ x.v[k].t = "str" THEN Text(_normalize_money(x.v[k].v))
                 ELSE x.v[k]])

normalize_participacao(x) ==
    IF x.t # "dict" THEN x ELSE Dict([k \in DOMAIN x.v |-> _normalize_bool(x.v[k])])

normalize_outrosEdital(x) ==
    IF x.t # "dict" THEN x
    ELSE Dict([k \in DOMAIN x.v |->
                 IF k = "mecanismoPagamento" /\ x.v[k].t = "str"
                 THEN Text(_sanitize_mecanismo_pagamento(x.v[k].v))
                 ELSE x.v[k]])

normalize_grupo(x) ==
    IF x.t # "dict" THEN x
    ELSE Dict([k \in DOMAIN x.v |->
                 IF k = "itens" /\ x.v[k].t = "list" THEN List(_dedupe_itens(x.v[k].v, {}))
                 ELSE x.v[k]])

normalize_documentos(x) ==
    IF x.t = "list" THEN List([i \in 1..Len(x.v) |-> normalize_grupo(x.v[i])]) ELSE x

\* normalize_checklist_result(data): dates, money, booleans, documentos,
\* mecanismoPagamento; every other value as it is.
normalize_checklist_result(data) ==
    [k \in DOMAIN data |->
        CASE k = "edital" -> normalize_edital(data[k])
          [] k = "participacao" -> normalize_participacao(data[k])
          [] k = "visitaTecnica" -> _normalize_bool(data[k])
          [] k = "documentos" -> normalize_documentos(data[k])
          [] k = "outrosEdital" -> normalize_outrosEdital(data[k])
          [] OTHER -> data[k]]

normalize_step ==
    /\ gpc = "normalize"
    /\ merged' = normalize_checklist_result(merged)
    /\ gpc' = "normalized"
    /\ UNCHANGED << flats, calls, sysVars, retrieval, chunking >>

\* Step 5 returns the checklist; step 6 is next.
checklist_ready ==
    /\ gpc = "normalized"
    /\ gpc' = "returned"
    /\ Did(GenRunner, CallsMade(job[GenRunner], Len(Stages(job[GenRunner])), TRUE))
    /\ pc' = [pc EXCEPT ![GenRunner] = "insert_checklist"]
    /\ UNCHANGED << merged, flats, calls, dbVars, envVars, queue, job, tmp,
                    failedAt, foundDone, orphanTmp, webVars, reply, retrieval,
                    chunking >>

\* ------------------------------------------------- normaliser's inputs
\* Values an LLM can put in edital.dataSessao: the four formats, a text that
\* is no date, a date with month 13.
DateTexts ==
    { Text(<< "2", "0", "2", "4", "-", "0", "5", "-", "0", "1" >>),
      Text(<< "0", "1", "/", "0", "5", "/", "2", "0", "2", "4" >>),
      Text(<< "0", "1", "-", "0", "5", "-", "2", "0", "2", "4" >>),
      Text(<< "0", "1", " ", "d", "e", " ", "m", "a", "i", "o", " ", "d", "e", " ", "2", "0", "2", "4" >>),
      Text(<< "a", " ", "d", "e", "f", "i", "n", "i", "r" >>),
      Text(<< "2", "0", "2", "4", "-", "1", "3", "-", "0", "1" >>) }

\* Values of edital.totalReais: a monetary value, one with R$ already, one
\* with spaces around, digits that are no monetary value, a text.
MoneyTexts ==
    { Text(<< "1", ".", "2", "3", "4", ",", "5", "6" >>),
      Text(<< "R", "$", " ", "1", ".", "2", "3", "4", ",", "5", "6" >>),
      Text(<< " ", "1", ".", "2", "3", "4", ",", "5", "6", " " >>),
      Text(<< "1", "2", "3", "4", ",", "5", "6" >>),
      Text(<< "s", "o", "b", " ", "c", "o", "n", "s", "u", "l", "t", "a" >>) }

\* Raw values of a BoolField.
BoolRaws ==
    { Bool(TRUE), Bool(FALSE), Num(1), Num(0),
      Text(<< "S", "i", "m" >>), Text(<< "n", "a", "o" >>), Text(<< >>), Text(<< "t", "a", "l", "v", "e", "z" >>) }

Item(documento, referencia, local) ==
    Dict(("documento" :> Text(documento)) @@ ("referencia" :> Text(referencia))
            @@ ("local" :> Text(local)))

ItemA == Item(<< "c", "n", "d" >>, << "7", ".", "1" >>, << "e", "n", "v", "1" >>)
ItemA2 == Item(<< "c", "n", "d" >>, << "7", ".", "1" >>, << "e", "n", "v", "2" >>)
ItemB == Item(<< "c", "r", "f" >>, << "7", ".", "1" >>, << "e", "n", "v", "1" >>)

Grupo(itens) == Dict(("categoria" :> Text(<< "h", "a", "b" >>)) @@ ("itens" :> List(itens)))

\* documentos: none, and one group whose itens repeat a (documento, referencia)
\* or do not.
DocumentosLists ==
    { List(<< >>), List(<< Grupo(<< ItemA >>) >>), List(<< Grupo(<< ItemA, ItemA2 >>) >>),
      List(<< Grupo(<< ItemA, ItemB, ItemA2 >>) >>), List(<< Grupo(<< ItemA, ItemA >>) >>),
      List(<< Grupo(<< ItemA, ItemB >>), Grupo(<< ItemA2 >>) >>) }

\* Values of outrosEdital.mecanismoPagamento: clean, followed by an evidence
\* fragment in two spellings, with trailing junk, longer than the maximum.
MecanismoTexts ==
    { Text(<< "3", "0", " ", "d", "i", "a", "s" >>),
      Text(<< "3", "0", " ", "d", "i", "a", "s", "'", ",", " ", "'", "e", "v", "i", "d", "e", "n", "c", "i", "a", "'", ":", "{", "'", "t", "r", "e", "c", "h", "o", "'", ":", "'", "x", "'", "}", "}" >>),
      Text(<< "3", "0", " ", "d", "i", "a", "s", ",", " ", "e", "v", "i", "d", "e", "n", "c", "i", "a", ":", " ", "{", "x", "}" >>),
      Text(<< "3", "0", " ", "d", "i", "a", "s", "}", "'" >>),
      Text(<< "3", "0", " ", "d", "i", "a", "s" >> \o << BACKTICK, BACKTICK >>),
      Text(<< "p", "a", "g", "a", "m", "e", "n", "t", "o", " ", "e", "m", " ", "3", "0", " ", "d", "i", "a", "s" >>),
      Text(<< "e", "m", " ", "3", "0", " ", "d", "i", "a", "s", " ", "}", "\"", "}", " ", "a", "p", "o", "s" >>) }

\* A defaulted checklist with the given sub-trees.
DefaultedChecklist(e, p, v, d, o) ==
    [k \in SCHEMA_KEYS |->
        CASE k = "edital" -> Dict(e)
          [] k = "participacao" -> Dict(p)
          [] k = "visitaTecnica" -> v
          [] k = "documentos" -> d
          [] k = "outrosEdital" -> Dict(o)
          [] k \in STRING_KEYS -> Text(<< >>)
          [] k \in LIST_KEYS -> List(<< >>)
          [] k \in OBJECT_KEYS -> Dict(EmptyDict)
          [] k = "schemaVersion" -> Num(2)]

NormInputs ==
    { DefaultedChecklist(e, ("permiteConsorcio" :> b) @@ ("beneficiosMPE" :> Bool(FALSE)), v, d, o) :
        e \in Both(Opt("dataSessao", DateTexts), Opt("totalReais", MoneyTexts)),
        b \in BoolRaws,
        v \in { Bool(FALSE), Num(1), Text(<< "y", "e", "s" >>) },
        d \in DocumentosLists,
        o \in Opt("mecanismoPagamento", MecanismoTexts) }

\* ------------------------------------------------------------------ chunker
SENTENCE_END == {".", ";"}
WHITESPACE == {" "}

Suffix(s, n) == IF Len(s) <= n THEN s ELSE SubSeq(s, Len(s) - n + 1, Len(s))

\* The overlap moved to the start of a word: the characters up to the first
\* whitespace of the suffix are dropped.
Overlap_words(prev) ==
    LET suf == Suffix(prev, CHUNK_OVERLAP_CHARS)
        spaces == { k \in 1..Len(suf) : suf[k] \in WHITESPACE }
    IN  IF spaces = {} THEN suf
        ELSE SubSeq(suf, (CHOOSE k \in spaces : \A j \in spaces : k <= j) + 1, Len(suf))

\* The overlap: the suffix of the previous chunk, CHUNK_OVERLAP_CHARS long.
Overlap(prev) == Suffix(prev, CHUNK_OVERLAP_CHARS)

Greatest(S) == CHOOSE p \in S : \A q \in S : q <= p

Least(S) == CHOOSE p \in S : \A q \in S : p <= q

\* How many characters of rest the next chunk takes, lo..hi being what the
\* minimum and the maximum leave: all of a rest that fits; else up to the last
\* sentence end in lo..hi; else up to the last word end in lo..hi; else up to
\* the last word end before lo; else the whole first word.
Cut(rest, lo, hi) ==
    LET WordEnd(p) == p = Len(rest) \/ rest[p + 1] \in WHITESPACE
        sentences == { p \in lo..hi : rest[p] \in SENTENCE_END /\ WordEnd(p) }
        words == { p \in 1..Len(rest) : WordEnd(p) }
    IN  IF Len(rest) <= hi THEN Len(rest)
        ELSE IF sentences # {} THEN Greatest(sentences)
        ELSE IF words \cap (lo..hi) # {} THEN Greatest(words \cap (lo..hi))
        ELSE IF words \cap (1..hi) # {} THEN Greatest(words \cap (1..hi))
        ELSE Least(words)

\* One chunk more: the overlap of the previous chunk, then the next piece of
\* the text; the overlap counts toward the chunk's length.
chunk_step ==
    /\ gpc = "chunk"
    /\ IF chunking.rest = << >>
       THEN /\ gpc' = "chunked"
            /\ UNCHANGED chunking
       ELSE LET overlap == IF chunking.chunks = << >> THEN << >>
                           ELSE Overlap(chunking.chunks[Len(chunking.chunks)])
                lo == IF CHUNK_MIN_CHARS > Len(overlap) THEN CHUNK_MIN_CHARS - Len(overlap) ELSE 1
                hi == CHUNK_MAX_CHARS - Len(overlap)
                p == Cut(chunking.rest, lo, hi)
            IN  /\ chunking' = [rest |-> SubSeq(chunking.rest, p + 1, Len(chunking.rest)),
                                chunks |-> Append(chunking.chunks,
                                                  overlap \o SubSeq(chunking.rest, 1, p))]
                /\ UNCHANGED gpc
    /\ UNCHANGED << merged, flats, calls, retrieval, sysVars >>

\* Parsed documents: up to MaxTokens words, some ending a sentence, one space
\* between them.
Tokens == { << "a", "b" >>, << "c", "d", "e", "." >>, << "f", "g", "h", "i", "j" >> }

RECURSIVE Join(_)
Join(ts) ==
    IF Len(ts) = 1 THEN ts[1] ELSE ts[1] \o << " " >> \o Join(Tail(ts))

Texts == { Join(ts) : ts \in UNION { [1..n -> Tokens] : n \in 1..MaxTokens } }

\* ---------------------------------------------------------------- retriever
\* Embeddings are directions in a plane, in steps of 30 degrees; similarities
\* are in hundredths.  A vector of norm 0 has similarity 0 with every vector.
COS30 == << 100, 87, 50, 0, -50 >>     \* cos of 0, 30, 60, 90, 120 degrees

Vec(norm, dir) == [norm |-> norm, dir |-> dir]

Vecs == { Vec(1, d) : d \in {-1, 0, 1} }

query_vec == Vec(1, 0)                 \* embed_query(search_query)

Abs(x) == IF x < 0 THEN 0 - x ELSE x

cosine_similarity(a, b) ==
    IF a.norm = 0 \/ b.norm = 0 THEN 0 ELSE COS30[Abs(a.dir - b.dir) + 1]

\* A chunk with its embedding; hint says that its section_hint matches the
\* block's.  The chunk's id is its place in the list.  Boosted chunks are
\* taken on one side of the query (the other side mirrors it).
Chunks == { c \in [vec : Vecs, hint : BOOLEAN] : c.hint => c.vec.dir >= 0 }

SECTION_HINT_BOOST == 115              \* x 1.15, against 100 for no boost

\* cosine similarity with the query, boosted when the hint matches.
Score(c) ==
    cosine_similarity(query_vec, c.vec) * (IF c.hint THEN SECTION_HINT_BOOST ELSE 100)

\* i comes before j: the higher score, then the lower chunk id.
ScoreBefore(chunks, i, j) ==
    \/ Score(chunks[i]) > Score(chunks[j])
    \/ Score(chunks[i]) = Score(chunks[j]) /\ i < j

\* Sort by score, descending.
SortByScore(chunks) ==
    [k \in 1..Len(chunks) |->
        CHOOSE i \in 1..Len(chunks) :
            Cardinality({ j \in 1..Len(chunks) : ScoreBefore(chunks, j, i) }) = k - 1]

Min(a, b) == IF a < b THEN a ELSE b

\* ... and take the top TOP_N_FOR_MMR.
TopN(chunks) == SubSeq(SortByScore(chunks), 1, Min(Len(chunks), TOP_N_FOR_MMR))

MaxSim(chunks, selected, d) ==
    CHOOSE m \in { cosine_similarity(chunks[d].vec, chunks[selected[k]].vec) :
                     k \in 1..Len(selected) } :
        \A k \in 1..Len(selected) :
            m >= cosine_similarity(chunks[d].vec, chunks[selected[k]].vec)

\* The MMR value with MMR_LAMBDA fixed at 0.7.
MmrValue_fixed(chunks, lambda, selected, d) ==
    7 * cosine_similarity(query_vec, chunks[d].vec)
        - (10 - 7) * MaxSim(chunks, selected, d)

\* lambda . sim(q, d) - (1 - lambda) . max sim(d, already selected); lambda in
\* tenths.
MmrValue(chunks, lambda, selected, d) ==
    lambda * cosine_similarity(query_vec, chunks[d].vec)
        - (10 - lambda) * MaxSim(chunks, selected, d)

\* The chunk of the pool with the highest MMR value; ties by original score,
\* then by chunk id.
MmrPick(chunks, lambda, selected, pool) ==
    CHOOSE d \in pool :
        \A e \in pool \ {d} :
            \/ MmrValue(chunks, lambda, selected, d) > MmrValue(chunks, lambda, selected, e)
            \/ /\ MmrValue(chunks, lambda, selected, d) = MmrValue(chunks, lambda, selected, e)
               /\ ScoreBefore(chunks, d, e)

\* Score every chunk, sort, keep the top TOP_N_FOR_MMR as the pool.
score_step ==
    /\ gpc = "score"
    /\ retrieval' = [retrieval EXCEPT
                        !.scored = TopN(retrieval.chunks),
                        !.pool = { TopN(retrieval.chunks)[k] :
                                     k \in 1..Len(TopN(retrieval.chunks)) }]
    /\ gpc' = "mmr"
    /\ UNCHANGED << merged, flats, calls, chunking, sysVars >>

\* The MMR loop with the chunk picked left in the pool.
mmr_step_nopop ==
    /\ gpc = "mmr"
    /\ IF Len(retrieval.selected) >= TOP_K_RETRIEVAL \/ retrieval.pool = {}
       THEN /\ gpc' = "retrieved"
            /\ UNCHANGED retrieval
       ELSE LET d == IF retrieval.selected = << >> THEN retrieval.scored[1]
                     ELSE MmrPick(retrieval.chunks, retrieval.lambda,
                                  retrieval.selected, retrieval.pool)
            IN  /\ retrieval' = [retrieval EXCEPT !.selected = Append(@, d)]
                /\ UNCHANGED gpc
    /\ UNCHANGED << merged, flats, calls, chunking, sysVars >>

\* One turn of the MMR loop: stop with top_k selected or the pool empty;
\* otherwise the highest-scoring chunk first, then the chunk of the pool with
\* the highest MMR value, moved from the pool to the selection.
mmr_step ==
    /\ gpc = "mmr"
    /\ IF Len(retrieval.selected) >= TOP_K_RETRIEVAL \/ retrieval.pool = {}
       THEN /\ gpc' = "retrieved"
            /\ UNCHANGED retrieval
       ELSE LET d == IF retrieval.selected = << >> THEN retrieval.scored[1]
                     ELSE MmrPick(retrieval.chunks, retrieval.lambda,
                                  retrieval.selected, retrieval.pool)
            IN  /\ retrieval' = [retrieval EXCEPT !.selected = Append(@, d),
                                                  !.pool = @ \ {d}]
                /\ UNCHANGED gpc
    /\ UNCHANGED << merged, flats, calls, chunking, sysVars >>

\* ------------------------------------------------------------- environment
\* The worker process is killed inside process_job and started again: what it
\* held in memory is gone, its temporary file stays on disk.
Kill(r) ==
    /\ kills < MaxKills
    /\ pc[r] \notin {"brpop", "returned"}
    /\ kills' = kills + 1
    /\ pc' = [pc EXCEPT ![r] = "brpop"]
    /\ job' = [job EXCEPT ![r] = NoJob]
    /\ trace' = [trace EXCEPT ![r] = {}]
    /\ failedAt' = [failedAt EXCEPT ![r] = NULL]
    /\ foundDone' = [foundDone EXCEPT ![r] = FALSE]
    /\ tmp' = [tmp EXCEPT ![r] = FALSE]
    /\ orphanTmp' = IF tmp[r] THEN orphanTmp + 1 ELSE orphanTmp
    /\ UNCHANGED << dbVars, pushes, deletes, queue >>
    /\ UNCHANGED << webVars, genVars, reply >>

\* Payloads another producer may put on document:ingest: a second delivery for
\* a known document, a payload for an id without a row, a payload with a
\* required field missing.
Created == {d \in DocIds : Document[d] # NoRow}

WellFormed ==
    { [documentId |-> d, userId |-> u, fileUrl |-> "url", usePdfFile |-> f] :
        d \in Created, u \in Users, f \in BOOLEAN }
    \cup
    { [documentId |-> UnknownDoc, userId |-> u, fileUrl |-> "url", usePdfFile |-> FALSE] :
        u \in Users }

Malformed ==
    { [documentId |-> NULL, userId |-> u, fileUrl |-> "url", usePdfFile |-> FALSE] :
        u \in Users }
    \cup
    { [documentId |-> UuidOrder[1], userId |-> NULL, fileUrl |-> "url", usePdfFile |-> FALSE],
      [documentId |-> UuidOrder[1], userId |-> "u1", fileUrl |-> NULL, usePdfFile |-> FALSE] }

\* What reaches the queue a second time on the two-worker deployment: the
\* payloads of the API, which carry no usePdfFile.
Redelivered == { p \in WellFormed : ~ p.usePdfFile }

Deliver(p) ==
    /\ pushes < MaxPushes
    /\ queue' = push(queue, p)
    /\ pushes' = pushes + 1
    /\ UNCHANGED << dbVars, kills, deletes, pc, job, tmp, trace, failedAt,
                    foundDone, orphanTmp >>
    /\ UNCHANGED << webVars, genVars, reply >>

\* ------------------------------------------------------------ specification
SysInit ==
    /\ Document = [d \in DocIds |-> NoRow]
    /\ Checklist = {}
    /\ nextChecklistId = 0
    /\ queue = << >>
    /\ pushes = 0
    /\ kills = 0
    /\ deletes = 0
    /\ pc = [r \in Runners |-> "brpop"]
    /\ job = [r \in Runners |-> NoJob]
    /\ tmp = [r \in Runners |-> FALSE]
    /\ trace = [r \in Runners |-> {}]
    /\ failedAt = [r \in Runners |-> NULL]
    /\ foundDone = [r \in Runners |-> FALSE]
    /\ orphanTmp = 0
    /\ completions = [d \in DocIds |-> 0]
    /\ deleted = {}
    /\ web = WebIdle
    /\ origin = << >>
    /\ reply = NoReply

\* No checklist generation is being followed.
GenOff ==
    /\ gpc = "off"
    /\ merged = << >>
    /\ flats = << >>
    /\ calls = << >>
    /\ retrieval = NULL
    /\ chunking = NULL

Init == SysInit /\ GenOff

Outcomes == {"ok", "not_configured", "upload_throws", "presign_throws", "create_throws", "push_throws"}

Next ==
    \/ \E u \in Users, o \in Outcomes : upload(u, o)
    \/ \E c \in Checklist : delete(c.id, c.userId)
    \/ \E p \in Redelivered \cup Malformed : Deliver(p)
    \/ \E r \in Runners : main_brpop(r)
    \/ \E r \in Runners : validate(r)
    \/ \E r \in Runners : set_processing(r)
    \/ \E r \in Runners, ok \in BOOLEAN : download_to_temp(r, ok)
    \/ \E r \in Runners, k \in 1..(2 + Len(CHECKLIST_BLOCKS)), ok \in BOOLEAN :
          generate_checklist(r, k, ok)
    \/ \E r \in Runners, dbok \in BOOLEAN : insert_checklist(r, dbok)
    \/ \E r \in Runners, dbok \in BOOLEAN : set_done(r, dbok)
    \/ \E r \in Runners, dbok \in BOOLEAN : except(r, dbok)
    \/ \E r \in Runners : finally(r)
    \/ \E r \in Runners : main_loop(r)
    \/ \E r \in Runners : Kill(r)

Spec == Init /\ [][Next]_vars

\* The API with the page as its client and one worker on the queue: every
\* payload on document:ingest was pushed by createAndEnqueue.
ApiRunners == {"w1"}

ApiNext ==
    \/ \E u \in Users, o \in Outcomes : upload(u, o)
    \/ \E o \in Outcomes : handleExtract_upload(o)
    \/ \E o \in PollOutcomes : handleExtract_poll(o)
    \/ \E o \in GenerateOutcomes : handleExtract_generate(o)
    \/ \E d \in DocIds, u \in Users, o \in GenerateOutcomes : generate_request(d, u, o)
    \/ \E u \in Users : create(u)
    \/ \E r \in ApiRunners : main_brpop(r)
    \/ \E r \in ApiRunners : validate(r)
    \/ \E r \in ApiRunners : set_processing(r)
    \/ \E r \in ApiRunners, ok \in BOOLEAN : download_to_temp(r, ok)
    \/ \E r \in ApiRunners, k \in 1..(2 + Len(CHECKLIST_BLOCKS)), ok \in BOOLEAN :
          generate_checklist(r, k, ok)
    \/ \E r \in ApiRunners, dbok \in BOOLEAN : insert_checklist(r, dbok)
    \/ \E r \in ApiRunners, dbok \in BOOLEAN : set_done(r, dbok)
    \/ \E r \in ApiRunners, dbok \in BOOLEAN : except(r, dbok)
    \/ \E r \in ApiRunners : finally(r)
    \/ \E r \in ApiRunners : main_loop(r)

ApiSpec == Init /\ [][ApiNext]_vars

\* One worker that is never killed, on a queue fed by the API and by other
\* producers (either mode, duplicates, malformed payloads).  The worker is
\* sequential code: a step it has reached is taken, every external call
\* returning or raising, and BRPOP returns once the list is not empty.
process_job_step(r) ==
    \/ validate(r)
    \/ set_processing(r)
    \/ \E ok \in BOOLEAN : download_to_temp(r, ok)
    \/ \E k \in 1..(2 + Len(CHECKLIST_BLOCKS)), ok \in BOOLEAN : generate_checklist(r, k, ok)
    \/ \E dbok \in BOOLEAN : insert_checklist(r, dbok)
    \/ \E dbok \in BOOLEAN : set_done(r, dbok)
    \/ \E dbok \in BOOLEAN : except(r, dbok)
    \/ finally(r)

LiveNext ==
    \/ \E u \in Users, o \in Outcomes : upload(u, o)
    \/ \E p \in WellFormed \cup Malformed : Deliver(p)
    \/ \E r \in ApiRunners : main_brpop(r)
    \/ \E r \in ApiRunners : process_job_step(r)
    \/ \E r \in ApiRunners : main_loop(r)

LiveSpec ==
    /\ Init
    /\ [][LiveNext]_vars
    /\ \A r \in ApiRunners :
          /\ WF_vars(main_brpop(r))
          /\ WF_vars(process_job_step(r))
          /\ WF_vars(main_loop(r))

\* One call of _deep_merge_checklist on an accumulator and a block result.
MergeInit ==
    /\ SysInit
    /\ gpc = "merge"
    /\ \E base \in MergeBases, block_result \in MergeBlocks :
          /\ merged = base
          /\ flats = << [key |-> "merged", flat |-> base],
                        [key |-> "block", flat |-> block_result] >>
    /\ calls = << >>
    /\ retrieval = NULL
    /\ chunking = NULL

MergeNext == deep_merge_step

MergeSpec == MergeInit /\ [][MergeNext]_vars

\* Step 5 of process_job from the first block to the defaults: merged = {},
\* the eight blocks, schemaVersion, _fill_checklist_defaults.
GenJobs ==
    { [documentId |-> "d1", userId |-> "u1", fileUrl |-> "url", usePdfFile |-> b] :
        b \in BOOLEAN }

\* process_job at step 5 of a job in either mode: the Document is processing,
\* the file is downloaded, merged is empty.
GenInit ==
    /\ Document = [d \in DocIds |-> IF d = "d1"
                                      THEN [status |-> "processing", userId |-> "u1"]
                                      ELSE NoRow]
    /\ Checklist = {}
    /\ nextChecklistId = 0
    /\ queue = << >>
    /\ pushes = 1
    /\ kills = 0
    /\ deletes = 0
    /\ pc = [r \in Runners |-> IF r = GenRunner THEN "generate" ELSE "brpop"]
    /\ job \in { [r \in Runners |-> IF r = GenRunner THEN p ELSE NoJob] : p \in GenJobs }
    /\ tmp = [r \in Runners |-> r = GenRunner]
    /\ trace = [r \in Runners |-> IF r = GenRunner THEN {"update_processing", "download"}
                                  ELSE {}]
    /\ failedAt = [r \in Runners |-> NULL]
    /\ foundDone = [r \in Runners |-> FALSE]
    /\ orphanTmp = 0
    /\ completions = [d \in DocIds |-> 0]
    /\ deleted = {}
    /\ web = WebIdle
    /\ origin = << >>
    /\ reply = NoReply
    /\ gpc = "start"
    /\ merged = EmptyDict
    /\ flats = << >>
    /\ calls = << >>
    /\ retrieval = NULL
    /\ chunking = NULL

GenNext ==
    \/ upload_pdf_step
    \/ parse_step
    \/ embed_step
    \/ \E flat \in AllFlats, evidence \in AllEvidence : block_step(flat, evidence)
    \/ \E n \in 1..2 : call_raises(n)
    \/ set_schemaVersion
    \/ fill_defaults_step
    \/ normalize_step
    \/ checklist_ready
    \/ \E dbok \in BOOLEAN : insert_checklist(GenRunner, dbok)

GenSpec == GenInit /\ [][GenNext]_vars

\* normalize_checklist_result on one defaulted checklist; flats keeps the
\* checklist as it was before.
NormInit ==
    /\ SysInit
    /\ gpc = "normalize"
    /\ merged \in NormInputs
    /\ flats = << [key |-> "data", flat |-> merged] >>
    /\ calls = << >>
    /\ retrieval = NULL
    /\ chunking = NULL

NormNext == normalize_step

NormSpec == NormInit /\ [][NormNext]_vars

\* The API answering one request of one of two users over a database that
\* holds documents and checklists of both.
OwnerUsers == {"u1", "u2"}

\* The first document is absent, waiting or done and of either user; the
\* second, when there, is a done document of the second user.
OwnerDocuments ==
    { [d \in DocIds |-> IF d = UuidOrder[1] THEN a ELSE b] :
        a \in {NoRow} \cup [status : {"pending", "done"}, userId : OwnerUsers],
        b \in {NoRow, [status |-> "done", userId |-> "u2"]} }

\* Rows a Checklist table can hold over the documents D: the worker's row of a
\* done document, rows made through POST /checklists.
OwnerRows(D) ==
    { [userId |-> D[d].userId, documentId |-> d] : d \in {x \in DocIds : D[x].status = "done"} }
    \cup { [userId |-> u, documentId |-> NULL] : u \in OwnerUsers }

OwnerTables(D) ==
    { << >> } \cup { << a >> : a \in OwnerRows(D) }
    \cup { ab \in OwnerRows(D) \X OwnerRows(D) :
               ab[1].documentId = NULL \/ ab[1].documentId # ab[2].documentId }

OwnerInit ==
    /\ \E D \in OwnerDocuments : \E rows \in OwnerTables(D) :
          /\ Document = D
          /\ Checklist = { [id |-> i, userId |-> rows[i].userId,
                            documentId |-> rows[i].documentId] : i \in 1..Len(rows) }
          /\ nextChecklistId = Len(rows)
          /\ completions = [d \in DocIds |-> IF D[d].status = "done" THEN 1 ELSE 0]
          /\ deleted = { d \in DocIds : D[d].status = "done"
                                         /\ \A i \in 1..Len(rows) : rows[i].documentId # d }
    /\ queue = << >>
    /\ pushes = 0
    /\ kills = 0
    /\ deletes = 0
    /\ pc = [r \in Runners |-> "brpop"]
    /\ job = [r \in Runners |-> NoJob]
    /\ tmp = [r \in Runners |-> FALSE]
    /\ trace = [r \in Runners |-> {}]
    /\ failedAt = [r \in Runners |-> NULL]
    /\ foundDone = [r \in Runners |-> FALSE]
    /\ orphanTmp = 0
    /\ web = WebIdle
    /\ origin = << >>
    /\ reply = NoReply
    /\ GenOff

OwnerDocIds == DocIds \cup {UnknownDoc}

\* One request, by either user, for any id.
OwnerNext ==
    /\ reply = NoReply
    /\ \/ \E d \in OwnerDocIds, u \in OwnerUsers : getStatus_request(d, u)
       \/ \E d \in OwnerDocIds, u \in OwnerUsers : getChecklist_request(d, u)
       \/ \E id \in 1..MaxChecklistIds, u \in OwnerUsers : findOne(id, u)
       \/ \E id \in 1..MaxChecklistIds, u \in OwnerUsers : delete(id, u)
       \/ \E d \in OwnerDocIds, u \in OwnerUsers, o \in GenerateOutcomes : generate_request(d, u, o)

OwnerSpec == OwnerInit /\ [][OwnerNext]_vars

\* The page and its uploader with one worker on the queue.  Every await of
\* handleExtract settles (the fetch resolves or rejects), so a poll or a
\* generate that is due is taken.
WebRunsLeft == 2 * (pushes + 1) <= MaxChecklistIds   \* ids left for one more run's rows

WebNext ==
    \/ \E checked \in BOOLEAN : setUsePdfFile(checked)
    \/ \E o \in Outcomes : WebRunsLeft /\ handleExtract_upload(o)
    \/ \E o \in PollOutcomes : handleExtract_poll(o)
    \/ \E o \in GenerateOutcomes : handleExtract_generate(o)
    \/ \E r \in ApiRunners : main_brpop(r)
    \/ \E r \in ApiRunners : process_job_step(r)
    \/ \E r \in ApiRunners : main_loop(r)

WebSpec ==
    /\ Init
    /\ [][WebNext]_vars
    /\ WF_vars(\E o \in PollOutcomes : handleExtract_poll(o))
    /\ WF_vars(\E o \in GenerateOutcomes : handleExtract_generate(o))

\* retrieve_for_block on any list of up to MaxChunks embedded chunks, with
\* MMR_LAMBDA 0.7 or 1.  The function is sequential code: its next step is
\* taken.
Lambdas == {7, 10}

RetrievalInputs ==
    { [chunks |-> cs, lambda |-> l, scored |-> << >>, pool |-> {}, selected |-> << >>] :
        cs \in UNION { [1..n -> Chunks] : n \in 0..MaxChunks }, l \in Lambdas }

RetrInit ==
    /\ SysInit
    /\ gpc = "score"
    /\ merged = << >>
    /\ flats = << >>
    /\ calls = << >>
    /\ retrieval \in RetrievalInputs
    /\ chunking = NULL

RetrNext == score_step \/ mmr_step

RetrSpec == RetrInit /\ [][RetrNext]_vars /\ WF_vars(RetrNext)

\* The chunker on any parsed document of Texts.
ChunkInit ==
    /\ SysInit
    /\ gpc = "chunk"
    /\ merged = << >>
    /\ flats = << >>
    /\ calls = << >>
    /\ retrieval = NULL
    /\ chunking \in { [rest |-> t, chunks |-> << >>] : t \in Texts }

ChunkNext == chunk_step

ChunkSpec == ChunkInit /\ [][ChunkNext]_vars

\* ------------------------------------------------------------------ claims
InProcessJob(r) == pc[r] \notin {"brpop", "returned"}

ProviderCalls == {"upload_pdf", "parse", "embed", "llm"}

\* C1 (as claimed): for every document the values Document.status takes form a
\* prefix of pending, processing, done or of pending, processing, failed: every
\* change of status is one of row creation -> pending, pending -> processing,
\* processing -> done, processing -> failed, also under duplicate deliveries.
C1_Transitions ==
    { << "absent", "pending" >>, << "pending", "processing" >>,
      << "processing", "done" >>, << "processing", "failed" >> }

C1_StatusMonotone ==
    [][\A d \in DocIds :
          Document'[d].status # Document[d].status
             => << Document[d].status, Document'[d].status >> \in C1_Transitions]_vars

\* C2 (as claimed): a process_job call that found its Document already done
\* changes no status, downloads nothing, calls no provider and touches no
\* Checklist row: it does nothing at all and returns.
C2_DoneShortCircuit ==
    \A r \in Runners : foundDone[r] => trace[r] = {} /\ ~ tmp[r]

\* C3 (as claimed): whenever a Document's status is done, a Checklist row with
\* that documentId exists, so getChecklistForDocument does not answer NotFound.
C3_DoneHasChecklist ==
    \A d \in DocIds :
        status(d) = "done"
           => /\ \E c \in Checklist : c.documentId = d
              /\ getChecklistForDocument(d, Document[d].userId) # "NotFound"

\* C3 (amended): whenever a Document's status is done, a Checklist row with
\* that documentId exists and getChecklistForDocument returns it, unless the
\* row the worker inserted was removed through ChecklistsService.delete.
C3_DoneHasChecklistUnlessDeleted ==
    \A d \in DocIds :
        status(d) = "done" /\ d \notin deleted
           => /\ \E c \in Checklist : c.documentId = d
              /\ getChecklistForDocument(d, Document[d].userId) # "NotFound"

\* C3 witness: a worker has inserted the checklist and written done, and the
\* document's owner reads the checklist.
C3_Witness ==
    \E r \in Runners :
        /\ pc[r] = "returned"
        /\ {"inserted", "update_done"} \subseteq trace[r]
        /\ status(job[r].documentId) = "done"
        /\ getChecklistForDocument(job[r].documentId, job[r].userId) = "checklist"

\* C4: at most one Checklist row carries a given documentId, whatever the
\* deliveries (one after the other, duplicate, on two workers at once); an
\* insert_checklist that meets a row of the same documentId is rejected.
C4_OneChecklistPerDocument ==
    /\ \A c1, c2 \in Checklist :
          c1.documentId # NULL /\ c1.documentId = c2.documentId => c1 = c2
    /\ \A r \in Runners :
          failedAt[r] = "unique_violation" => "inserted" \notin trace[r]

\* C4 witness: a second insert_checklist for a documentId was rejected by the
\* UNIQUE index and the row that was there is still the only one.
C4_Witness ==
    \E r \in Runners :
        /\ failedAt[r] = "unique_violation"
        /\ Cardinality({c \in Checklist : c.documentId = job[r].documentId}) = 1

\* C5 (as claimed): when a job in which the download, the parse, an embedding
\* call or a block LLM call failed returns, its Document is failed and no
\* Checklist row references it.
C5_EarlyFailure(r) ==
    failedAt[r] \in {"download"} \cup ProviderCalls

C5_FailureLeavesNoChecklist ==
    [][\A r \in Runners :
          /\ pc[r] = "finally" /\ pc'[r] = "returned"
          /\ C5_EarlyFailure(r)
          /\ RowExists(job[r].documentId)
          => /\ Document'[job[r].documentId].status = "failed"
             /\ ~ \E c \in Checklist' : c.documentId = job[r].documentId]_vars

\* C6 (as claimed): for every documentId at most one run completes (inserts
\* the checklist and writes done), and once a run has completed the status
\* stays done whatever the other runs do.
C6_AtMostOneCompletion ==
    \A d \in DocIds :
        /\ completions[d] <= 1
        /\ completions[d] >= 1 => status(d) = "done"

\* C7 (as claimed): a payload leaves the queue only after the terminal write
\* of its job, so a document a worker has set to processing always has its
\* payload either with a worker that is still running the job or on the queue,
\* to be delivered again.
C7_PayloadHeld(d) ==
    \/ \E i \in 1..Len(queue) : queue[i].documentId = d
    \/ \E r \in Runners : InProcessJob(r) /\ job[r].documentId = d

C7_AckAfterTerminalWrite ==
    \A d \in DocIds : status(d) = "processing" => C7_PayloadHeld(d)

\* C8: process_job on a payload that lacks documentId, userId or fileUrl
\* returns without a database write and without a download, and the worker is
\* back at the queue for the next message.
C8_LacksField(p) == NULL \in {p.documentId, p.userId, p.fileUrl}

C8_InvalidPayloadDropped ==
    \A r \in Runners :
        pc[r] # "brpop" /\ C8_LacksField(job[r])
           => /\ trace[r] = {}
              /\ ~ tmp[r]
              /\ pc[r] \in {"validate", "returned"}
              /\ pc[r] = "returned" => ENABLED main_loop(r)

\* C8 witness: process_job has returned from a payload that lacks a field.
C8_Witness ==
    \E r \in Runners : pc[r] = "returned" /\ C8_LacksField(job[r]) /\ job[r].documentId # NULL

\* C9 (as claimed): process_job on a payload whose documentId has no Document
\* row downloads nothing, calls no provider and attempts no insert.
C9_AbsentDocumentDropped ==
    \A r \in Runners :
        pc[r] # "brpop" /\ job[r].documentId = UnknownDoc
           => trace[r] \cap ({"download", "insert_checklist"} \cup ProviderCalls) = {}

\* C10: when process_job returns, the temporary file of the job is gone,
\* whether the job ended in done, in failed, or an exception was raised after
\* the download (in the generation, in insert_checklist, in a status write).
C10_TempFileRemoved ==
    \A r \in Runners : pc[r] = "returned" => ~ tmp[r]

\* C10 witness: a job that downloaded its file and then raised in
\* insert_checklist or in the write of done has returned, and another one has
\* returned after done.
C10_Witness ==
    /\ \E r \in Runners :
          /\ pc[r] = "returned" /\ "download" \in trace[r]
          /\ failedAt[r] \in {"insert_checklist", "unique_violation", "set_done"}
    /\ \E r \in Runners :
          /\ pc[r] = "returned" /\ "download" \in trace[r]
          /\ failedAt[r] = NULL /\ "update_done" \in trace[r]

\* C11 (as claimed): every Checklist row, whichever code path stored it (the
\* worker's insert_checklist, ChecklistsService.generate, ChecklistsService
\* .create), carries the documentId of the document it was produced from; no
\* row has a null documentId.
C11_ChecklistLinked ==
    \A c \in Checklist :
        /\ c.documentId # NULL
        /\ c.id \in DOMAIN origin => c.documentId = origin[c.id]

\* C12 (as claimed): when one run of handleExtract (upload, poll until done,
\* POST /checklists/generate) has shown its checklist, exactly one Checklist
\* row was produced from the uploaded document, the worker's rows and the
\* API's counted together.
RowsProducedFrom(d) ==
    { c \in Checklist :
        \/ c.documentId = d
        \/ c.id \in DOMAIN origin /\ origin[c.id] = d }

C12_OneRowPerWebRun ==
    web.pc = "shown" => Cardinality(RowsProducedFrom(web.documentId)) = 1

\* C13: createAndEnqueue creates the Document row (status pending) before it
\* pushes, so every payload on document:ingest, and every payload a worker
\* popped from it, names a documentId whose Document row exists, and there
\* are never more pushes than rows: a call whose upload, presign or
\* document.create threw pushed nothing.
C13_Payloads ==
    { queue[i] : i \in 1..Len(queue) } \cup { job[r] : r \in { x \in Runners : job[x] # NoJob } }

C13_RowBeforePush ==
    /\ \A p \in C13_Payloads : RowExists(p.documentId)
    /\ pushes <= Cardinality(Created)

\* C13 witness: two payloads wait on the queue, both rows are there, and a
\* handleExtract run has ended in the catch because its upload threw.
C13_Witness ==
    /\ Len(queue) = 2
    /\ web.pc = "error" /\ web.documentId = NULL

C15_Started(d) ==
    \/ status(d) \in {"processing", "done", "failed"}
    \/ \E r \in Runners : job[r].documentId = d

C15_OnQueue(d) == \E i \in 1..Len(queue) : queue[i].documentId = d

C15_FirstInFirstOut ==
    \A i, j \in 1..Len(UuidOrder) :
        i < j /\ C15_Started(UuidOrder[j]) => ~ C15_OnQueue(UuidOrder[i])

\* C15 witness: both payloads were on the list and the worker holds the one
\* pushed first while the second still waits.
C15_Witness ==
    /\ \E r \in Runners : job[r].documentId = UuidOrder[1]
    /\ C15_OnQueue(UuidOrder[2])

\* C18 (as claimed): with a worker that is not killed and external calls that
\* return or raise, a Document that a job set to processing is eventually
\* done or failed: no exception in a stage (download, parse, embed, block
\* generation, checklist insert, status write) leaves it in processing.
C18_SetProcessing(r) ==
    pc[r] = "download" /\ RowExists(job[r].documentId)

C20_StringPaths == { << "modalidadeLicitacao" >>, << "edital", "orgao" >> }

C20_NonEmptyStr(x) == x.t = "str" /\ x.v # << >>

C20_MergeKeepsEarlier ==
    gpc = "merge_done" =>
        LET base == flats[1].flat
            block_result == flats[2].flat
        IN  /\ block_result = EmptyDict => merged = base
            /\ \A path \in C20_StringPaths :
                  LET a == Get(base, path)
                      b == Get(block_result, path)
                      m == Get(merged, path)
                  IN  /\ C20_NonEmptyStr(b) /\ a \in {Text(<< >>), None, Absent} => m = b
                      /\ b = Text(<< >>) /\ C20_NonEmptyStr(a) => m = a
                      /\ C20_NonEmptyStr(a) /\ C20_NonEmptyStr(b) => m = a

\* C20 witness: accumulator and block both held a non-empty
\* modalidadeLicitacao, the block also filled an empty edital.orgao, and the
\* merge is done.
C20_Witness ==
    /\ gpc = "merge_done"
    /\ Get(flats[1].flat, << "modalidadeLicitacao" >>) = Text(<< "A" >>)
    /\ Get(flats[2].flat, << "modalidadeLicitacao" >>) = Text(<< "B" >>)
    /\ Get(flats[1].flat, << "edital", "orgao" >>) = Text(<< >>)
    /\ Get(merged, << "edital", "orgao" >>) = Text(<< "B", "e", "t", "a" >>)

\* C19: the merged checklist is the eight flat block results applied to the
\* accumulator in the order edital, modalidade_participacao, prazos,
\* documentos, visita_proposta, sessao_disputa, pagamento_contrato, analise,
\* whatever the order in which the block calls were started and answered.
RECURSIVE C19_InFixedOrder(_, _)
C19_InFixedOrder(i, acc) ==
    IF i > Len(CHECKLIST_BLOCKS) THEN acc
    ELSE IF \E j \in 1..Len(flats) : flats[j].key = CHECKLIST_BLOCKS[i]
         THEN C19_InFixedOrder(i + 1,
                 _deep_merge_checklist(acc,
                    flats[CHOOSE j \in 1..Len(flats) : flats[j].key = CHECKLIST_BLOCKS[i]].flat))
         ELSE C19_InFixedOrder(i + 1, acc)

C16_TypeOf(k) ==
    IF k \in {"modalidadeLicitacao", "responsavelAnalise", "recomendacao"} THEN "str"
    ELSE IF k = "visitaTecnica" THEN "bool"
    ELSE IF k \in {"documentos", "requisitos"} THEN "list"
    ELSE IF k = "schemaVersion" THEN "int"
    ELSE "dict"

C16_Keys ==
    {"modalidadeLicitacao", "responsavelAnalise", "recomendacao", "visitaTecnica",
     "participacao", "documentos", "requisitos", "edital", "prazos", "sessao",
     "proposta", "outrosEdital", "schemaVersion"}

C16_Given(k) == \E i \in 1..Len(flats) : k \in DOMAIN flats[i].flat

C17_Idempotent ==
    gpc = "normalized" => normalize_checklist_result(merged) = merged

\* C17 witness: a checklist the first application changed in all five places.
C17_Witness ==
    /\ gpc = "normalized"
    /\ \A path \in { << "edital", "dataSessao" >>, << "edital", "totalReais" >>,
                      << "participacao", "permiteConsorcio" >>, << "documentos" >>,
                      << "outrosEdital", "mecanismoPagamento" >> } :
          /\ Get(flats[1].flat, path) # Absent
          /\ Get(merged, path) # Get(flats[1].flat, path)

\* C26: for every two adjacent chunks that are both at least 300 characters
\* long (twice CHUNK_OVERLAP_CHARS), the last CHUNK_OVERLAP_CHARS characters
\* of the first equal the first CHUNK_OVERLAP_CHARS characters of the second.
C26_Long(c) == Len(c) >= 2 * CHUNK_OVERLAP_CHARS

C26_OverlapLaw ==
    gpc \in {"chunk", "chunked"} =>
        \A i \in 1..(Len(chunking.chunks) - 1) :
            LET a == chunking.chunks[i]
                b == chunking.chunks[i + 1]
            IN  C26_Long(a) /\ C26_Long(b) =>
                    \A k \in 1..CHUNK_OVERLAP_CHARS :
                        a[Len(a) - CHUNK_OVERLAP_CHARS + k] = b[k]

\* C26 witness: three chunks, the first two long, the second starting in the
\* middle of a word of the first.
C26_Witness ==
    /\ gpc = "chunked"
    /\ Len(chunking.chunks) >= 3
    /\ C26_Long(chunking.chunks[1]) /\ C26_Long(chunking.chunks[2])
    /\ chunking.chunks[2][1] \notin WHITESPACE
    /\ chunking.chunks[1][Len(chunking.chunks[1]) - CHUNK_OVERLAP_CHARS] \notin WHITESPACE

\* C27: ChecklistsService.generate called for a document that does not exist,
\* belongs to another user or is not done answers NotFound, has made no
\* embedding, query or LLM call, and creates no Checklist row.
C27_Ready(d, u) == RowExists(d) /\ Document[d].userId = u /\ Document[d].status = "done"

C27_GenerateRefused ==
    [][\A d \in OwnerDocIds, u \in OwnerUsers, o \in GenerateOutcomes :
          generate(d, u, o) /\ ~ C27_Ready(d, u)
              => /\ reply'.answer = "NotFound"
                 /\ reply'.calls = {}
                 /\ Checklist' = Checklist
                 /\ nextChecklistId' = nextChecklistId]_vars

\* C27 witness: generate was refused for a done document of the other user.
C27_Witness ==
    /\ reply.op = "generate" /\ reply.answer = "NotFound"
    /\ RowExists(reply.id)
    /\ Document[reply.id].status = "done"
    /\ Document[reply.id].userId # reply.userId

\* C29: getStatus, getChecklistForDocument, findOne and delete called with the
\* id of a document or checklist of another user answer NotFound and change
\* no row.
C29_OwnsDocument(u, d) == RowExists(d) /\ Document[d].userId = u

C29_OwnsChecklist(u, id) == \E c \in Checklist : c.id = id /\ c.userId = u

C29_Refused == reply'.answer = "NotFound" /\ Document' = Document /\ Checklist' = Checklist

C29_OwnRowsOnly ==
    [][/\ \A d \in OwnerDocIds, u \in OwnerUsers :
             (getStatus_request(d, u) \/ getChecklist_request(d, u)) /\ ~ C29_OwnsDocument(u, d)
                 => C29_Refused
       /\ \A id \in 1..MaxChecklistIds, u \in OwnerUsers :
             (findOne(id, u) \/ delete(id, u)) /\ ~ C29_OwnsChecklist(u, id)
                 => C29_Refused]_vars

\* C29 witness: delete was refused for a checklist that is there and belongs
\* to the other user.
C29_Witness ==
    /\ reply.op = "delete" /\ reply.answer = "NotFound"
    /\ \E c \in Checklist : c.id = reply.id /\ c.userId # reply.userId

\* C28: handleExtract polls the status at most 120 times (MaxPolls here) and
\* always terminates; POST /checklists/generate is called only after a poll
\* that returned done, never after failed or after the polls ran out; and
\* isProcessing is false again on every exit (success, upload error, failed,
\* timeout, generate error).
C28_Safe ==
    /\ web.polls <= MaxPolls
    /\ web.pc = "generate" => web.status = "done" /\ web.polls >= 1
    /\ reply.op = "generate" /\ reply.id = web.documentId => web.status = "done"
    /\ web.pc \in {"idle", "shown", "error"} => ~ web.isProcessing
    /\ web.pc \in {"poll", "generate"} => web.isProcessing

C28_PollsBoundedAndTerminates ==
    /\ [] C28_Safe
    /\ web.isProcessing ~> ~ web.isProcessing

\* The timeout exit: the polls ran out on a document still being processed.
C28_Witness ==
    /\ web.pc = "error" /\ ~ web.isProcessing
    /\ web.i = MaxPolls /\ web.polls = MaxPolls
    /\ web.status \in {"pending", "processing"}

\* C30: the payload pushed for the page's upload has usePdfFile = true when
\* the box 'Enviar PDF como arquivo' was ticked at the start of the
\* extraction, and does not request it when the box was not ticked.
C30_Payloads ==
    { queue[i] : i \in DOMAIN queue } \cup { job[r] : r \in Runners }

C30_TickReachesPayload ==
    \A p \in C30_Payloads :
        p.documentId # NULL /\ p.documentId = web.documentId =>
            p.usePdfFile = web.options

\* C23: retrieve_for_block always terminates and returns exactly
\* min(top_k, number of chunks, TOP_N_FOR_MMR) pairwise distinct chunks, all
\* among the TOP_N_FOR_MMR chunks of highest boosted score, the
\* highest-scoring chunk first; with fewer than top_k chunks it returns all.
C23_Among(chunks, i) ==
    Cardinality({ j \in 1..Len(chunks) : ScoreBefore(chunks, j, i) }) < TOP_N_FOR_MMR

C23_Returned ==
    gpc = "retrieved" =>
        LET chunks == retrieval.chunks
            selected == retrieval.selected
        IN  /\ Len(selected) = Min(TOP_K_RETRIEVAL, Min(Len(chunks), TOP_N_FOR_MMR))
            /\ \A a, b \in 1..Len(selected) : a # b => selected[a] # selected[b]
            /\ \A a \in 1..Len(selected) :
                  selected[a] \in 1..Len(chunks) /\ C23_Among(chunks, selected[a])
            /\ Len(chunks) > 0 =>
                  \A j \in 1..Len(chunks) : Score(chunks[selected[1]]) >= Score(chunks[j])
            /\ Len(chunks) < TOP_K_RETRIEVAL =>
                  { selected[a] : a \in 1..Len(selected) } = 1..Len(chunks)

C23_TerminatesWithTopK ==
    /\ [] C23_Returned
    /\ <> (gpc = "retrieved")

\* C23 witness: more chunks than TOP_N_FOR_MMR, and a chunk with the highest
\* cosine left out of the pool by three boosted ones.
C23_Witness ==
    /\ gpc = "retrieved"
    /\ Len(retrieval.chunks) > TOP_N_FOR_MMR
    /\ Len(retrieval.selected) = TOP_K_RETRIEVAL
    /\ \E i \in 1..Len(retrieval.chunks) :
          /\ ~ C23_Among(retrieval.chunks, i)
          /\ \A a \in 1..Len(retrieval.selected) :
                cosine_similarity(query_vec, retrieval.chunks[i].vec)
                   > cosine_similarity(query_vec, retrieval.chunks[retrieval.selected[a]].vec)

\* C24 (as claimed): with MMR_LAMBDA = 1 the selection is the first top_k of
\* all chunks sorted by their similarity to the query, descending, the
\* boosted score standing for the similarity of a chunk whose hint matches.
C24_TopK(selected, chunks) ==
    /\ Len(selected) = Min(TOP_K_RETRIEVAL, Len(chunks))
    /\ \A k \in 1..Len(selected) :
          Cardinality({ j \in 1..Len(chunks) : ScoreBefore(chunks, j, selected[k]) }) = k - 1

C24_SimBefore(chunks, i, j) ==
    \/ cosine_similarity(query_vec, chunks[i].vec) > cosine_similarity(query_vec, chunks[j].vec)
    \/ /\ cosine_similarity(query_vec, chunks[i].vec) = cosine_similarity(query_vec, chunks[j].vec)
       /\ i < j

C24_NoBoost == \A i \in 1..Len(retrieval.chunks) : ~ retrieval.chunks[i].hint

C25_Itens(data, g) == Get(data, << "documentos" >>).v[g].v["itens"].v

C25_FirstIdx(itens) ==
    { i \in 1..Len(itens) : \A j \in 1..(i - 1) : ItemKey(itens[j]) # ItemKey(itens[i]) }

C25_Nth(itens, k) ==
    CHOOSE i \in C25_FirstIdx(itens) :
        Cardinality({ j \in C25_FirstIdx(itens) : j <= i }) = k

C25_FirstOccurrencesKept ==
    gpc = "normalized" =>
        \A g \in 1..Len(Get(merged, << "documentos" >>).v) :
            LET before == C25_Itens(flats[1].flat, g)
                after == C25_Itens(merged, g)
            IN  /\ \A i, j \in 1..Len(after) :
                       i # j => ItemKey(after[i]) # ItemKey(after[j])
                /\ Len(after) = Cardinality(C25_FirstIdx(before))
                /\ \A k \in 1..Len(after) : after[k] = before[C25_Nth(before, k)]

\* C25 witness: a list of three items whose third repeats the key of the
\* first with another local, normalised to its first two.
C25_Witness ==
    /\ gpc = "normalized"
    /\ \E g \in 1..Len(Get(merged, << "documentos" >>).v) :
          /\ C25_Itens(flats[1].flat, g) = << ItemA, ItemB, ItemA2 >>
          /\ C25_Itens(merged, g) = << ItemA, ItemB >>

\* C21: evidence never influences checklist data.  Whatever evidence the
\* blocks return (different records, or none), the merged checklist without
\* its evidence key is what the flat block results alone give; the evidence
\* is only under the key evidence, one entry per block that returned some,
\* and is never passed through _deep_merge_checklist.
C21_Data(m) == [k \in DOMAIN m \ {"evidence"} |-> m[k]]

RECURSIVE C21_FlatsOnly(_, _)
C21_FlatsOnly(i, acc) ==
    IF i > Len(flats) THEN acc
    ELSE C21_FlatsOnly(i + 1, _deep_merge_checklist(acc, flats[i].flat))

C21_Expected ==
    LET blocks == C21_FlatsOnly(1, EmptyDict)
        versioned == blocks @@ ("schemaVersion" :> Num(2))
        defaulted == _fill_checklist_defaults(versioned)
    IN  CASE gpc \in {"start", "embed", "blocks", "schemaVersion", "raised"} -> blocks
          [] gpc = "defaults" -> versioned
          [] gpc = "normalize" -> defaulted
          [] OTHER -> normalize_checklist_result(defaulted)

C21_EvidenceApart ==
    /\ C21_Data(merged) = C21_Data(C21_Expected)
    /\ "evidence" \in DOMAIN merged =>
          /\ merged["evidence"].t = "dict"
          /\ DOMAIN merged["evidence"].v \subseteq FlatsDone
          /\ \A b \in DOMAIN merged["evidence"].v :
                /\ merged["evidence"].v[b].t = "dict"
                /\ merged["evidence"].v[b].v \in BlockEvidence(b) \ {EmptyDict}

\* C21 witness: two blocks returned evidence for modalidadeLicitacao, the
\* first block left the field out, and the checklist is ready.
C21_Witness ==
    /\ gpc = "returned"
    /\ "evidence" \in DOMAIN merged
    /\ DOMAIN merged["evidence"].v = {"edital", "modalidade_participacao"}
    /\ "modalidadeLicitacao" \in DOMAIN merged["evidence"].v["edital"].v
    /\ Get(flats[1].flat, << "modalidadeLicitacao" >>) = Absent
    /\ Get(merged, << "modalidadeLicitacao" >>) = Text(<< "P", "r", "e", "g", "a", "o" >>)

\* C22: in a job whose payload has usePdfFile = true the parser, chunker,
\* embedder and retriever are never called; the PDF is uploaded once and
\* exactly eight block calls are made, one per block in the order of
\* CHECKLIST_BLOCKS, before schemaVersion = 2, the defaults and the
\* normalisation are applied and the checklist is inserted.
C22_TextFns ==
    {"parse_file_to_normalized_chunks", "embed_chunks", "retrieve_for_block",
     "_generate_one_block"}

C22_PdfCalls ==
    << Call("_upload_pdf_to_openai", NULL) >>
    \o [i \in 1..Len(CHECKLIST_BLOCKS) |->
          Call("_generate_one_block_from_pdf_file", CHECKLIST_BLOCKS[i])]

C22_PdfNativeBranch ==
    job[GenRunner].usePdfFile =>
        /\ \A i \in 1..Len(calls) : calls[i].fn \notin C22_TextFns
        /\ Cardinality({ i \in 1..Len(calls) : calls[i].fn = "_upload_pdf_to_openai" }) <= 1
        /\ Len(calls) <= Len(C22_PdfCalls)
        /\ calls = SubSeq(C22_PdfCalls, 1, Len(calls))
        /\ gpc \in {"schemaVersion", "defaults", "normalize", "normalized", "returned"}
              => calls = C22_PdfCalls
        /\ "schemaVersion" \in DOMAIN merged => gpc \in {"defaults", "normalize", "normalized", "returned"}
        /\ "inserted" \in trace[GenRunner] =>
              /\ calls = C22_PdfCalls
              /\ merged["schemaVersion"] = Num(2)
              /\ SCHEMA_KEYS \subseteq DOMAIN merged
              /\ normalize_checklist_result(merged) = merged

\* C22 witness: a PDF-mode job whose checklist is inserted.
C22_Witness ==
    /\ job[GenRunner].usePdfFile
    /\ "inserted" \in trace[GenRunner]
    /\ \E c \in Checklist : c.documentId = job[GenRunner].documentId
    /\ Len(calls) = 1 + Len(CHECKLIST_BLOCKS)

====
